---- MODULE Spec2Model ----
(***************************************************************************)
(* The low-level request/response engine of openssh-sftp-client:          *)
(* producers (WriteEnd), the write queue, the flush task, the read task,   *)
(* the arena of response slots and the sftp server on the other side of    *)
(* the two byte streams.                                                   *)
(***************************************************************************)
EXTENDS Integers, Sequences, FiniteSets, TLC

\* ------------------------------------------------------------------ bounds

\* Number of requests the producer submits in one behaviour.
NumReq == 2

\* Configuration of the connection (SftpOptions).
write_end_buffer_size == 2

\* Wire constants of the response frame.
FrameHeaderLen == 9
TypeAndIdLen == 5
DataLenPrefix == 4
SubdrainLen == 4

\* Payload bytes of a status/handle frame the server sends.
HdrPayload == 4

\* Data bytes of the frames read_in_one_packet is tried on: 0 .. MaxData.
MaxData == 1

\* Chunks pushed to the write buffer when flush() is followed byte by byte,
\* and the longest of them.
MaxChunks == 3
MaxChunkLen == 3

SlotIds == 0 .. (NumReq - 1)
Serials == 1 .. NumReq
BogusId == NumReq

\* The producer's workload: requests answered by a status/handle frame
\* alternate with read requests that register a vector as their buffer.
KindOf(r) == IF r % 2 = 1 THEN "hdr" ELSE "data"
InputOf(r) == IF r % 2 = 1 THEN "None" ELSE "Vec"

VARIABLES
    slots,               \* arena: slot index -> slot
    queue,               \* write buffer: sequence of chunks
    requests_sent,       \* SharedDataInner::requests_sent
    notify,              \* SharedDataInner::notify (stored permit)
    flush_end_notify,    \* Auxiliary notifiers (stored permits)
    flush_immediately,
    read_end_notify,
    pending_requests,    \* Auxiliary counters
    requests_to_read,
    shutdown_stage,
    shutdown_requested,
    cancel_token,        \* TRUE once cancelled
    prod,                \* producer: [pc, id, n]
    reqs,                \* serial -> [id, kind, aw, res, ndeliv]
    flush_task,          \* [pc, cnt, guard, result]
    backup_buffer,       \* flush task's backup_queue_buffer
    buffer,              \* local VecDeque of flush()
    wire,                \* bytes written to the outbound stream
    answered,            \* serials the server has answered
    in_stream,           \* inbound stream: the frames not yet read
    rd_pos,              \* reader's offset from the start of the first unread frame
    read_task,           \* [pc, cnt, left, guard, result]
    last_read,           \* outcome of the last read_in_one_packet call
    write_ends,          \* WriteEnd clones: handle -> [pc, id]
    pusher,              \* holder of the write buffer's push guard, 0 if none
    is_conn_closed,      \* SharedDataInner::is_conn_closed
    handles,             \* strong count of the Arc behind SharedData
    aw_drop,             \* slots whose awaitable is being dropped
    call,                \* a function applied on its own: arguments, outcome
    auxiliary            \* Auxiliary: the configuration it was made with

\* State of the low-level connection: the WriteEnd clones and what they share.
conn_vars == << write_ends, pusher, is_conn_closed, handles, aw_drop >>

\* Auxiliary::max_pending_requests(): fixed when the connection is made.
max_pending_requests == auxiliary.max_pending_requests

vars == << slots, queue, requests_sent, notify, flush_end_notify,
           flush_immediately, read_end_notify, pending_requests,
           requests_to_read, shutdown_stage, shutdown_requested, cancel_token,
           prod, reqs, flush_task, backup_buffer, buffer, wire, answered,
           in_stream, rd_pos, read_task, last_read, conn_vars, call, auxiliary >>

\* ------------------------------------------------------------- helpers

Min(S) == CHOOSE x \in S : \A y \in S : x <= y

RECURSIVE Flatten(_)
Flatten(chunks) ==
    IF chunks = << >> THEN << >> ELSE Head(chunks) \o Flatten(Tail(chunks))

Take(s, n) == SubSeq(s, 1, n)
Drop(s, n) == SubSeq(s, n + 1, Len(s))

NoResp == [kind |-> "none", id |-> -1, req |-> 0, n |-> 0]
FreeSlot == [live |-> FALSE, st |-> "Free", input |-> "None", resp |-> NoResp,
             held |-> FALSE, req |-> 0]
NoReq == [id |-> -1, kind |-> "none", aw |-> "none", res |-> NoResp, ndeliv |-> 0]
NoFrame == [L |-> 0, type |-> "none", id |-> -1, req |-> 0]
NoRead == [err |-> "none", at |-> "none", frame |-> NoFrame, consumed |-> 0]

\* ------------------------------------------------- arena of response slots

\* AwaitableResponses::insert: a fresh slot, held by the arena and by the Id.
insert_slot(s) == Min({i \in SlotIds : ~s[i].live})

inserted(s, i) ==
    [s EXCEPT ![i] = [live |-> TRUE, st |-> "Uninit", input |-> "None",
                      resp |-> NoResp, held |-> TRUE, req |-> 0]]

\* AwaitableResponses::get
get_ok(s, response_id) == response_id \in SlotIds /\ s[response_id].live

\* Awaitable::reset(input): the slot waits for its response.
reset(slot, input, r) == [slot EXCEPT !.st = "Pending", !.input = input, !.req = r]

\* Awaitable::take_input: only a slot that waits for its response has an input.
take_input_ok(slot) == slot.st = "Pending"

\* Awaitable::done: Pending -> Ready, once.
done_ok(slot) == slot.st = "Pending"
done(slot, response) ==
    IF done_ok(slot) THEN [slot EXCEPT !.st = "Ready", !.resp = response, !.input = "None"]
    ELSE slot

\* ArenaArc::strong_count seen by the read task, which holds `callback`.
strong_count(slot) == (IF slot.live THEN 1 ELSE 0) + (IF slot.held THEN 1 ELSE 0) + 1

\* Dropping the awaitable: the slot is removed from the arena only when it is
\* done; otherwise the read task removes it after delivering.
awaitable_dropped(slot) ==
    IF slot.st \in {"Ready", "Consumed"} THEN FreeSlot ELSE [slot EXCEPT !.held = FALSE]

\* ------------------------------------------------------ read_in_one_packet

\* A dispatch that looks up the slot after the one the frame names.
callback_id_next(response_id) == (response_id + 1) % NumReq

\* The id looked up in the arena is the request-id of the frame.
callback_id(response_id) == response_id

\* A skip that leaves the last byte of the frame in the stream.
consume_packet_short(len) == len - 1

\* consume_packet: bytes taken from the stream to skip the rest of a frame.
consume_packet(len) == len

\* read_in_data_packet: 4-byte length of the string, then the data, into the
\* registered buffer or into a fresh box.
read_in_data_packet(len, input) ==
    [consumed |-> DataLenPrefix + (len - DataLenPrefix),
     kind |-> IF input = "None" THEN "AllocatedBox" ELSE "Buffer",
     n |-> len - DataLenPrefix]

\* read_in_extended_reply
read_in_extended_reply(len) == [consumed |-> len, kind |-> "ExtendedReply", n |-> len]

\* read_in_packet: reads `len` bytes, type and id included.
read_in_packet(len) ==
    [consumed |-> len, kind |-> "Header", n |-> len - TypeAndIdLen]

\* A delivery that stores the response whatever the state of the slot.
deliver_overwrite(s, id, response) ==
    [err |-> "Ok", at |-> "none",
     slots |-> [s EXCEPT ![id] = [s[id] EXCEPT !.st = "Ready", !.resp = response,
                                               !.input = "None"]]]

\* callback.done(response), then removal when only arena and read task hold it.
deliver(s, id, response) ==
    LET after == done(s[id], response)
    IN  [err |-> IF done_ok(s[id]) THEN "Ok" ELSE "AwaitableError",
         at |-> IF done_ok(s[id]) THEN "none" ELSE "done",
         slots |-> [s EXCEPT ![id] = IF strong_count(after) = 2 THEN FreeSlot
                                     ELSE after]]

\* One call of ReadEnd::read_in_one_packet on `frame`, the frame at the
\* current stream position: bytes consumed, error, the call that failed and
\* the arena afterwards.
read_in_one_packet(s, frame) ==
    LET len == frame.L - TypeAndIdLen
        id  == callback_id(frame.id)
    IN  IF ~get_ok(s, id)
        THEN [err |-> "InvalidResponseId", at |-> "get",
              consumed |-> FrameHeaderLen + consume_packet(len), slots |-> s]
        ELSE IF frame.type = "data"
        THEN IF ~take_input_ok(s[id])
             THEN [err |-> "AwaitableError", at |-> "take_input",
                   consumed |-> FrameHeaderLen + consume_packet(len), slots |-> s]
             ELSE LET d == read_in_data_packet(len, s[id].input)
                      r == deliver(s, id, [kind |-> d.kind, id |-> frame.id,
                                           req |-> frame.req, n |-> d.n])
                  IN  [err |-> r.err, at |-> r.at,
                       consumed |-> FrameHeaderLen + d.consumed, slots |-> r.slots]
        ELSE IF frame.type = "ext"
        THEN LET d == read_in_extended_reply(len)
                 r == deliver(s, id, [kind |-> d.kind, id |-> frame.id,
                                      req |-> frame.req, n |-> d.n])
             IN  [err |-> r.err, at |-> r.at,
                  consumed |-> FrameHeaderLen + d.consumed, slots |-> r.slots]
        ELSE LET d == read_in_packet(len + TypeAndIdLen)
                 r == deliver(s, id, [kind |-> d.kind, id |-> frame.id,
                                      req |-> frame.req, n |-> d.n])
             \* drain.subdrain(4): of the 9 bytes only the length is consumed
             IN  [err |-> r.err, at |-> r.at,
                  consumed |-> SubdrainLen + d.consumed, slots |-> r.slots]

\* ------------------------------------------------------- inbound stream

\* A frame occupies 4 bytes of length and then L bytes.
FrameSize(frame) == DataLenPrefix + frame.L

\* The reader stands on a frame boundary.
Aligned == rd_pos = 0

\* The stream and the reader's offset after `consumed` bytes of the first
\* unread frame were taken: a frame read to its end leaves the stream.
stream_after(stream, consumed) ==
    IF consumed = FrameSize(Head(stream))
    THEN [frames |-> Tail(stream), pos |-> 0]
    ELSE [frames |-> stream, pos |-> consumed]


\* ---------------------------------------------------------------- Init

\* SharedData::new and the handles made from it: one WriteEnd clone for each
\* request of the workload, and the ReadEnd.
conn_new ==
    /\ write_ends = [p \in Serials |-> [pc |-> "idle", id |-> -1]]
    /\ pusher = 0
    /\ is_conn_closed = FALSE
    /\ handles = NumReq + 1
    /\ aw_drop = {}

\* The engine before any of its tasks has run.
engine_new ==
    /\ slots = [i \in SlotIds |-> FreeSlot]
    /\ queue = << >>
    /\ requests_sent = 0
    /\ notify = FALSE
    /\ flush_end_notify = FALSE
    /\ flush_immediately = FALSE
    /\ read_end_notify = FALSE
    /\ pending_requests = 0
    /\ requests_to_read = 0
    /\ shutdown_stage = 0
    /\ shutdown_requested = FALSE
    /\ cancel_token = FALSE
    /\ prod = [pc |-> "idle", id |-> -1, n |-> 0]
    /\ reqs = [r \in Serials |-> NoReq]
    /\ flush_task = [pc |-> "wait_end", cnt |-> 0, guard |-> "armed", result |-> "none"]
    /\ backup_buffer = << >>
    /\ buffer = << >>
    /\ wire = << >>
    /\ answered = {}
    /\ in_stream = << >>
    /\ rd_pos = 0
    /\ read_task = [pc |-> "wait", cnt |-> 0, left |-> 0, guard |-> "armed",
                    result |-> "none"]
    /\ last_read = NoRead
    /\ conn_new

\* No function is applied on its own.
NoCall == [fn |-> "none"]

Init ==
    /\ engine_new
    /\ call = NoCall
    /\ auxiliary = [max_pending_requests |-> 1]

\* ------------------------------------------------------------- producer

\* SharedData::create_response_id
create_response_id ==
    /\ prod.pc = "idle"
    /\ prod.n < NumReq
    /\ LET i == insert_slot(slots)
       IN  /\ slots' = inserted(slots, i)
           /\ prod' = [prod EXCEPT !.pc = "created", !.id = i]
    /\ UNCHANGED << queue, requests_sent, notify, flush_end_notify,
                    flush_immediately, read_end_notify, pending_requests,
                    requests_to_read, shutdown_stage, shutdown_requested,
                    cancel_token, reqs, flush_task, backup_buffer, buffer, wire,
                    answered, in_stream, rd_pos, read_task, last_read, conn_vars, call, auxiliary >>

\* A notification that counts the request twice.
notify_new_packet_event_twice ==
    /\ requests_sent' = requests_sent + 2
    /\ notify' = TRUE

\* SharedData::notify_new_packet_event
notify_new_packet_event ==
    /\ requests_sent' = requests_sent + 1
    /\ notify' = TRUE

\* WriteEnd::send_request (through send_*_request): the request carries the
\* slot index as its request-id; reset, push, notify_new_packet_event.
send_request(kind, input) ==
    /\ prod.pc = "created"
    /\ LET r == prod.n + 1
           i == prod.id
       IN  /\ slots' = [slots EXCEPT ![i] = reset(slots[i], input, r)]
           /\ queue' = Append(queue, << [req |-> r, id |-> i, kind |-> kind] >>)
           /\ reqs' = [reqs EXCEPT ![r] = [id |-> i, kind |-> kind, aw |-> "waiting",
                                           res |-> NoResp, ndeliv |-> 0]]
           /\ prod' = [prod EXCEPT !.pc = "sent", !.n = r]
    /\ notify_new_packet_event
    /\ UNCHANGED << flush_end_notify, flush_immediately, read_end_notify,
                    pending_requests, requests_to_read, shutdown_stage,
                    shutdown_requested, cancel_token, flush_task, backup_buffer,
                    buffer, wire, answered, in_stream, rd_pos, read_task,
                    last_read, conn_vars, call, auxiliary >>

\* The request is counted for the read task.
bump_requests_to_read ==
    /\ prod.pc = "sent"
    /\ requests_to_read' = requests_to_read + 1
    /\ prod' = [prod EXCEPT !.pc = "bumped"]
    /\ UNCHANGED << slots, queue, requests_sent, notify, flush_end_notify,
                    flush_immediately, read_end_notify, pending_requests,
                    shutdown_stage, shutdown_requested, cancel_token, reqs,
                    flush_task, backup_buffer, buffer, wire, answered,
                    in_stream, rd_pos, read_task, last_read, conn_vars, call, auxiliary >>

\* Auxiliary::wakeup_flush_task
wakeup_flush_task ==
    /\ flush_end_notify' = TRUE
    /\ pending_requests' = pending_requests + 1
    /\ flush_immediately' =
           IF pending_requests = max_pending_requests THEN TRUE ELSE flush_immediately

\* The producer wakes the flush task for the request it has sent.
request_done ==
    /\ prod.pc = "bumped"
    /\ wakeup_flush_task
    /\ prod' = [prod EXCEPT !.pc = "idle"]
    /\ UNCHANGED << slots, queue, requests_sent, notify, read_end_notify,
                    requests_to_read, shutdown_stage, shutdown_requested,
                    cancel_token, reqs, flush_task, backup_buffer, buffer, wire,
                    answered, in_stream, rd_pos, read_task, last_read, conn_vars, call, auxiliary >>

\* Auxiliary::requests_shutdown
requests_shutdown ==
    /\ shutdown_requested' = TRUE
    /\ flush_immediately' = TRUE
    /\ flush_end_notify' = TRUE

\* The last producer handle is dropped: shutdown stage 1 is ordered.
drop_last_write_end ==
    /\ prod.pc = "idle"
    /\ shutdown_stage' = 1
    /\ requests_shutdown
    /\ prod' = [prod EXCEPT !.pc = "dropped"]
    /\ UNCHANGED << slots, queue, requests_sent, notify, read_end_notify,
                    pending_requests, requests_to_read, cancel_token, reqs,
                    flush_task, backup_buffer, buffer, wire, answered,
                    in_stream, rd_pos, read_task, last_read, conn_vars, call, auxiliary >>

\* ----------------------------------------------------------- awaitables

AwaitUnchanged ==
    UNCHANGED << queue, requests_sent, notify, flush_end_notify,
                 flush_immediately, read_end_notify, pending_requests,
                 requests_to_read, shutdown_stage, shutdown_requested,
                 cancel_token, prod, flush_task, backup_buffer, buffer, wire,
                 answered, in_stream, rd_pos, read_task, last_read, conn_vars, call, auxiliary >>

\* The awaitable observes its response and is dropped.
await_ready(r) ==
    /\ reqs[r].aw = "waiting"
    /\ slots[reqs[r].id].st = "Ready"
    /\ reqs' = [reqs EXCEPT ![r].aw = "ok", ![r].res = slots[reqs[r].id].resp]
    /\ slots' = [slots EXCEPT ![reqs[r].id] =
                    awaitable_dropped([slots[reqs[r].id] EXCEPT !.st = "Consumed"])]
    /\ AwaitUnchanged

\* The token is cancelled: every awaitable still waiting is resolved with an
\* awaitable error and dropped.
await_cancelled ==
    /\ cancel_token
    /\ \E r \in Serials : reqs[r].aw = "waiting"
    /\ reqs' = [r \in Serials |->
                   IF reqs[r].aw = "waiting" THEN [reqs[r] EXCEPT !.aw = "err"]
                   ELSE reqs[r]]
    /\ slots' = [i \in SlotIds |->
                    IF \E r \in Serials : reqs[r].aw = "waiting" /\ reqs[r].id = i
                    THEN awaitable_dropped(slots[i])
                    ELSE slots[i]]
    /\ AwaitUnchanged

\* The caller drops the awaitable before it completes.
await_drop(r) ==
    /\ reqs[r].aw = "waiting"
    /\ reqs' = [reqs EXCEPT ![r].aw = "dropped"]
    /\ slots' = [slots EXCEPT ![reqs[r].id] = awaitable_dropped(slots[reqs[r].id])]
    /\ AwaitUnchanged


\* ------------------------------------------------------------ flush task

FlushUnchanged ==
    UNCHANGED << slots, requests_sent, notify, requests_to_read, shutdown_stage,
                 shutdown_requested, prod, reqs, answered, in_stream,
                 rd_pos, read_task, last_read, conn_vars, call, auxiliary >>

\* flush_end_notify.notified().await
flush_wait_end ==
    /\ flush_task.pc = "wait_end"
    /\ flush_end_notify
    /\ flush_end_notify' = FALSE
    /\ flush_task' = [flush_task EXCEPT !.pc = "select"]
    /\ UNCHANGED << queue, flush_immediately, read_end_notify, pending_requests,
                    cancel_token, backup_buffer, buffer, wire >>
    /\ FlushUnchanged

\* select!: the interval ticks
flush_tick ==
    /\ flush_task.pc = "select"
    /\ flush_task' = [flush_task EXCEPT !.pc = "load"]
    /\ UNCHANGED << queue, flush_end_notify, flush_immediately, read_end_notify,
                    pending_requests, cancel_token, backup_buffer, buffer, wire >>
    /\ FlushUnchanged

\* select!: flush_immediately.notified()
flush_notified_immediately ==
    /\ flush_task.pc = "select"
    /\ flush_immediately
    /\ flush_immediately' = FALSE
    /\ flush_task' = [flush_task EXCEPT !.pc = "load"]
    /\ UNCHANGED << queue, flush_end_notify, read_end_notify, pending_requests,
                    cancel_token, backup_buffer, buffer, wire >>
    /\ FlushUnchanged

\* A load that already counts the request a producer is about to announce.
flush_load_over ==
    /\ flush_task.pc = "load"
    /\ flush_task' = [flush_task EXCEPT !.pc = "notify_read",
                                        !.cnt = pending_requests + 1]
    /\ UNCHANGED << queue, flush_end_notify, flush_immediately, read_end_notify,
                    pending_requests, cancel_token, backup_buffer, buffer, wire >>
    /\ FlushUnchanged

\* let mut cnt = pending_requests.load(..)
flush_load ==
    /\ flush_task.pc = "load"
    /\ flush_task' = [flush_task EXCEPT !.pc = "notify_read", !.cnt = pending_requests]
    /\ UNCHANGED << queue, flush_end_notify, flush_immediately, read_end_notify,
                    pending_requests, cancel_token, backup_buffer, buffer, wire >>
    /\ FlushUnchanged

\* read_end_notify.notify_one()
flush_notify_read ==
    /\ flush_task.pc = "notify_read"
    /\ read_end_notify' = TRUE
    /\ flush_task' = [flush_task EXCEPT !.pc = "flush"]
    /\ UNCHANGED << queue, flush_end_notify, flush_immediately, pending_requests,
                    cancel_token, backup_buffer, buffer, wire >>
    /\ FlushUnchanged

\* A flush that goes on to its write loop without looking whether the swap
\* brought anything.
flush_swap_unchecked ==
    /\ flush_task.pc = "flush"
    /\ queue' = backup_buffer
    /\ backup_buffer' = << >>
    /\ buffer' = queue
    /\ flush_task' = [flush_task EXCEPT !.pc = "write"]
    /\ UNCHANGED << flush_end_notify, flush_immediately, read_end_notify,
                    pending_requests, cancel_token, wire >>
    /\ FlushUnchanged

\* flush(): queue().swap(backup_buffer); an empty result returns Ok at once,
\* otherwise the chunks move into the local VecDeque.
flush_swap ==
    /\ flush_task.pc = "flush"
    /\ queue' = backup_buffer
    /\ backup_buffer' = << >>
    /\ buffer' = queue
    /\ flush_task' = [flush_task EXCEPT !.pc = IF queue = << >> THEN "sub" ELSE "write"]
    /\ UNCHANGED << flush_end_notify, flush_immediately, read_end_notify,
                    pending_requests, cancel_token, wire >>
    /\ FlushUnchanged

\* The slices offered to one write_vectored call: the leading chunks, as many
\* as the reusable io-slices hold.
io_slices(buf) ==
    SubSeq(buf, 1, IF Len(buf) < write_end_buffer_size THEN Len(buf)
                   ELSE write_end_buffer_size)

\* An advance that keeps a partly written chunk whole.
RECURSIVE advance_keep(_, _)
advance_keep(buf, n) ==
    IF buf = << >> THEN << >>
    ELSE IF n >= Len(Head(buf)) THEN advance_keep(Tail(buf), n - Len(Head(buf)))
    ELSE buf

\* After n bytes were written: whole chunks are popped, a partly written
\* chunk is replaced by its remainder.
RECURSIVE advance(_, _)
advance(buf, n) ==
    IF buf = << >> THEN << >>
    ELSE IF n >= Len(Head(buf)) THEN advance(Tail(buf), n - Len(Head(buf)))
    ELSE << Drop(Head(buf), n) >> \o Tail(buf)

\* flush(): one write_vectored call that accepts n >= 1 bytes.
flush_write(n) ==
    /\ flush_task.pc = "write"
    /\ n \in 1 .. Len(Flatten(io_slices(buffer)))
    /\ wire' = wire \o Take(Flatten(io_slices(buffer)), n)
    /\ buffer' = advance(buffer, n)
    /\ flush_task' = [flush_task EXCEPT !.pc = IF buffer' = << >> THEN "sub" ELSE "write"]
    /\ UNCHANGED << queue, flush_end_notify, flush_immediately, read_end_notify,
                    pending_requests, cancel_token, backup_buffer >>
    /\ FlushUnchanged

\* The flush task leaves on an error: its drop guard, still armed, cancels
\* the token.
flush_exit_err(err) ==
    /\ flush_task' = [flush_task EXCEPT !.pc = "done", !.result = err]
    /\ cancel_token' = TRUE

\* flush(): write_vectored fails, or accepts 0 bytes (WriteZero).
flush_write_fails ==
    /\ flush_task.pc = "write"
    /\ flush_exit_err("IOError")
    /\ buffer' = << >>
    /\ UNCHANGED << queue, flush_end_notify, flush_immediately, read_end_notify,
                    pending_requests, backup_buffer, wire >>
    /\ FlushUnchanged

\* A subtraction that leaves the loop whatever is left in the counter.
flush_sub_breaks ==
    /\ flush_task.pc = "sub"
    /\ pending_requests' = pending_requests - flush_task.cnt
    /\ flush_task' = [flush_task EXCEPT
                         !.cnt = pending_requests - flush_task.cnt,
                         !.pc = "check_stage"]
    /\ UNCHANGED << queue, flush_end_notify, flush_immediately, read_end_notify,
                    cancel_token, backup_buffer, buffer, wire >>
    /\ FlushUnchanged

\* cnt = atomic_sub_assign(pending_requests, cnt); if cnt < max { break }
flush_sub ==
    /\ flush_task.pc = "sub"
    /\ pending_requests' = pending_requests - flush_task.cnt
    /\ flush_task' = [flush_task EXCEPT
                         !.cnt = pending_requests - flush_task.cnt,
                         !.pc = IF pending_requests - flush_task.cnt < max_pending_requests
                                THEN "check_stage" ELSE "notify_read"]
    /\ UNCHANGED << queue, flush_end_notify, flush_immediately, read_end_notify,
                    cancel_token, backup_buffer, buffer, wire >>
    /\ FlushUnchanged

\* if shutdown_stage == 2 { cancel_guard.disarm(); break Ok(()) }
flush_check_stage ==
    /\ flush_task.pc = "check_stage"
    /\ flush_task' = IF shutdown_stage = 2
                     THEN [flush_task EXCEPT !.pc = "done", !.guard = "disarmed",
                                             !.result = "Ok"]
                     ELSE [flush_task EXCEPT !.pc = "wait_end"]
    /\ UNCHANGED << queue, flush_end_notify, flush_immediately, read_end_notify,
                    pending_requests, cancel_token, backup_buffer, buffer, wire >>
    /\ FlushUnchanged

\* ------------------------------------------------------------- read task

ReadUnchanged ==
    UNCHANGED << queue, requests_sent, notify, pending_requests, shutdown_requested,
                 prod, flush_task, backup_buffer, buffer, wire, answered >>

\* read_end_notify.notified().await
read_wait ==
    /\ read_task.pc = "wait"
    /\ read_end_notify
    /\ read_end_notify' = FALSE
    /\ read_task' = [read_task EXCEPT !.pc = "load"]
    /\ UNCHANGED << slots, flush_end_notify, flush_immediately, requests_to_read,
                    shutdown_stage, cancel_token, reqs, rd_pos, last_read, conn_vars, call, auxiliary >>
    /\ UNCHANGED in_stream
    /\ ReadUnchanged

\* A load that counts one request more than were announced.
read_load_over ==
    /\ read_task.pc = "load"
    /\ read_task' = [read_task EXCEPT
                        !.cnt = requests_to_read + 1, !.left = requests_to_read + 1,
                        !.pc = "read"]
    /\ UNCHANGED << slots, flush_end_notify, flush_immediately, read_end_notify,
                    requests_to_read, shutdown_stage, cancel_token, reqs, rd_pos,
                    last_read, conn_vars, call, auxiliary >>
    /\ UNCHANGED in_stream
    /\ ReadUnchanged

\* let mut cnt = requests_to_read.load(..); while cnt != 0 { .. }
read_load ==
    /\ read_task.pc = "load"
    /\ read_task' = [read_task EXCEPT
                        !.cnt = requests_to_read, !.left = requests_to_read,
                        !.pc = IF requests_to_read # 0 THEN "read" ELSE "check_stage"]
    /\ UNCHANGED << slots, flush_end_notify, flush_immediately, read_end_notify,
                    requests_to_read, shutdown_stage, cancel_token, reqs, rd_pos,
                    last_read, conn_vars, call, auxiliary >>
    /\ UNCHANGED in_stream
    /\ ReadUnchanged

\* A read task that leaves on an error without cancelling the token.
read_exit_err_silent(err) ==
    /\ read_task' = [read_task EXCEPT !.pc = "done", !.result = err]
    /\ UNCHANGED cancel_token

\* The read task leaves on an error: its drop guard, still armed, cancels
\* the token.
read_exit_err(err) ==
    /\ read_task' = [read_task EXCEPT !.pc = "done", !.result = err]
    /\ cancel_token' = TRUE

\* What the read task does with the result of read_in_one_packet: `?`
\* returns every error from the task.
read_task_after_packet(err) ==
    IF err = "Ok"
    THEN /\ read_task' = [read_task EXCEPT
                             !.left = read_task.left - 1,
                             !.pc = IF read_task.left = 1 THEN "sub" ELSE "read"]
         /\ UNCHANGED cancel_token
    ELSE read_exit_err(err)

\* read_end.read_in_one_packet_pinned().await?
read_packet ==
    /\ read_task.pc = "read"
    /\ in_stream # << >>
    /\ Aligned
    /\ LET frame == Head(in_stream)
           res == read_in_one_packet(slots, frame)
           tgt == callback_id(frame.id)
           r == IF get_ok(slots, tgt) THEN slots[tgt].req ELSE 0
           after == stream_after(in_stream, res.consumed)
       IN  /\ slots' = res.slots
           /\ in_stream' = after.frames
           /\ rd_pos' = after.pos
           /\ reqs' = IF res.err = "Ok" /\ r \in Serials
                      THEN [reqs EXCEPT ![r].ndeliv = reqs[r].ndeliv + 1]
                      ELSE reqs
           /\ read_task_after_packet(res.err)
    /\ UNCHANGED << flush_end_notify, flush_immediately, read_end_notify,
                    requests_to_read, shutdown_stage, last_read, conn_vars, call, auxiliary >>
    /\ ReadUnchanged

\* The inbound stream fails or ends inside read_in_one_packet.
read_io_error ==
    /\ read_task.pc = "read"
    /\ read_exit_err("IOError")
    /\ UNCHANGED << slots, flush_end_notify, flush_immediately, read_end_notify,
                    requests_to_read, shutdown_stage, reqs, rd_pos, last_read, conn_vars, call, auxiliary >>
    /\ UNCHANGED in_stream
    /\ ReadUnchanged

\* cnt = atomic_sub_assign(requests_to_read, cnt)
read_sub ==
    /\ read_task.pc = "sub"
    /\ requests_to_read' = requests_to_read - read_task.cnt
    /\ read_task' = [read_task EXCEPT
                        !.cnt = requests_to_read - read_task.cnt,
                        !.left = requests_to_read - read_task.cnt,
                        !.pc = IF requests_to_read - read_task.cnt # 0 THEN "read"
                               ELSE "check_stage"]
    /\ UNCHANGED << slots, flush_end_notify, flush_immediately, read_end_notify,
                    shutdown_stage, cancel_token, reqs, rd_pos, last_read, conn_vars, call, auxiliary >>
    /\ UNCHANGED in_stream
    /\ ReadUnchanged

\* A stage 2 that is stored without waking the flush task.
order_flush_shutdown_silent ==
    /\ shutdown_stage' = 2
    /\ UNCHANGED << flush_immediately, flush_end_notify >>

\* Order the shutdown of flush_task: stage 2, then wake the flush task.
order_flush_shutdown ==
    /\ shutdown_stage' = 2
    /\ flush_immediately' = TRUE
    /\ flush_end_notify' = TRUE

\* A read task that orders the shutdown of the flush task whatever the stage.
read_check_stage_any ==
    /\ read_task.pc = "check_stage"
    /\ read_task' = [read_task EXCEPT !.pc = "done", !.guard = "disarmed",
                                      !.result = "Ok"]
    /\ order_flush_shutdown
    /\ UNCHANGED << slots, read_end_notify, requests_to_read, cancel_token, reqs,
                    rd_pos, last_read, conn_vars, call, auxiliary >>
    /\ UNCHANGED in_stream
    /\ ReadUnchanged

\* if shutdown_stage == 1 { cancel_guard.disarm(); ..; break Ok(()) }
read_check_stage ==
    /\ read_task.pc = "check_stage"
    /\ IF shutdown_stage = 1
       THEN /\ read_task' = [read_task EXCEPT !.pc = "done", !.guard = "disarmed",
                                              !.result = "Ok"]
            /\ order_flush_shutdown
       ELSE /\ read_task' = [read_task EXCEPT !.pc = "wait"]
            /\ UNCHANGED << shutdown_stage, flush_immediately, flush_end_notify >>
    /\ UNCHANGED << slots, read_end_notify, requests_to_read, cancel_token, reqs,
                    rd_pos, last_read, conn_vars, call, auxiliary >>
    /\ UNCHANGED in_stream
    /\ ReadUnchanged

\* ---------------------------------------------------------------- server

ServerUnchanged ==
    UNCHANGED << slots, queue, requests_sent, notify, flush_end_notify,
                 flush_immediately, read_end_notify, pending_requests,
                 requests_to_read, shutdown_stage, shutdown_requested,
                 cancel_token, prod, reqs, flush_task, backup_buffer, buffer, wire,
                 rd_pos, read_task, last_read, conn_vars, call, auxiliary >>

\* The frame the server sends for a request: a status/handle frame, or data.
ResponseFrame(kind, id, r, n) ==
    IF kind = "data"
    THEN [L |-> TypeAndIdLen + DataLenPrefix + n, type |-> "data", id |-> id, req |-> r]
    ELSE [L |-> TypeAndIdLen + HdrPayload, type |-> "hdr", id |-> id, req |-> r]

\* The server answers one request it has received, in any order.
server_answer(j) ==
    /\ j \in 1 .. Len(wire)
    /\ wire[j].req \notin answered
    /\ answered' = answered \cup {wire[j].req}
    /\ in_stream' = Append(in_stream,
                           ResponseFrame(wire[j].kind, wire[j].id, wire[j].req, 1))
    /\ ServerUnchanged

\* The server sends a frame whose request-id has no slot.
server_bogus ==
    /\ \A k \in 1 .. Len(in_stream) : in_stream[k].id # BogusId
    /\ in_stream' = Append(in_stream, ResponseFrame("hdr", BogusId, 0, 0))
    /\ UNCHANGED answered
    /\ ServerUnchanged

\* ------------------------------------- a caller of read_in_one_packet

\* The states a slot can be in when a frame for it arrives: free, waiting for
\* its response without or with a registered buffer, or already done.
PacketSlot(i, k) ==
    IF k = "Free" THEN FreeSlot
    ELSE [live |-> TRUE, st |-> IF k = "Ready" THEN "Ready" ELSE "Pending",
          input |-> IF k = "PendingVec" THEN "Vec" ELSE "None",
          resp |-> IF k = "Ready"
                   THEN [kind |-> "Header", id |-> i, req |-> i + 1, n |-> HdrPayload]
                   ELSE NoResp,
          held |-> TRUE, req |-> i + 1]

PacketSlotKinds == {"Free", "PendingNone", "PendingVec", "Ready"}

\* The frames a server can put on the stream: any type, any id (one of them
\* without a slot), a string of 0 .. MaxData bytes.
PacketFrames ==
    {[L |-> TypeAndIdLen + DataLenPrefix + n, type |-> t, id |-> i, req |-> 0] :
        n \in 0 .. MaxData, t \in {"hdr", "data", "ext"}, i \in 0 .. BogusId}

\* The low-level loop of the documentation: read_in_one_packet is called
\* again after it has returned, with an error or without.
read_in_one_packet_call ==
    /\ in_stream # << >>
    /\ Aligned
    /\ LET frame == Head(in_stream)
           res == read_in_one_packet(slots, frame)
           after == stream_after(in_stream, res.consumed)
       IN  /\ slots' = res.slots
           /\ in_stream' = after.frames
           /\ rd_pos' = after.pos
           /\ last_read' = [err |-> res.err, at |-> res.at, frame |-> frame,
                            consumed |-> res.consumed]
    /\ UNCHANGED << queue, requests_sent, notify, flush_end_notify,
                    flush_immediately, read_end_notify, pending_requests,
                    requests_to_read, shutdown_stage, shutdown_requested,
                    cancel_token, prod, reqs, flush_task, backup_buffer, buffer,
                    wire, answered, read_task, conn_vars, call, auxiliary >>

PacketInit ==
    /\ \E k \in [SlotIds -> PacketSlotKinds] :
           slots = [i \in SlotIds |-> PacketSlot(i, k[i])]
    /\ \E f \in PacketFrames :
           \/ in_stream = << f >>
           \/ \E g \in PacketFrames : in_stream = << f, g >>
    /\ queue = << >>
    /\ requests_sent = 0
    /\ notify = FALSE
    /\ flush_end_notify = FALSE
    /\ flush_immediately = FALSE
    /\ read_end_notify = FALSE
    /\ pending_requests = 0
    /\ requests_to_read = 0
    /\ shutdown_stage = 0
    /\ shutdown_requested = FALSE
    /\ cancel_token = FALSE
    /\ prod = [pc |-> "idle", id |-> -1, n |-> 0]
    /\ reqs = [r \in Serials |-> NoReq]
    /\ flush_task = [pc |-> "wait_end", cnt |-> 0, guard |-> "armed", result |-> "none"]
    /\ backup_buffer = << >>
    /\ buffer = << >>
    /\ wire = << >>
    /\ answered = {}
    /\ rd_pos = 0
    /\ read_task = [pc |-> "wait", cnt |-> 0, left |-> 0, guard |-> "armed",
                    result |-> "none"]
    /\ last_read = NoRead
    /\ conn_new
    /\ call = NoCall
    /\ auxiliary = [max_pending_requests |-> 1]

\* AwaitableInner::drop runs: a slot that is done is removed from the arena,
\* a slot still waiting is left for the read task.  The awaitable's own
\* reference is still counted until drop() has returned.
await_drop_begin(i) ==
    /\ slots[i].live
    /\ slots[i].held
    /\ i \notin aw_drop
    /\ aw_drop' = aw_drop \cup {i}
    /\ slots' = [slots EXCEPT ![i].live = slots[i].st \notin {"Ready", "Consumed"}]
    /\ UNCHANGED << queue, requests_sent, notify, flush_end_notify,
                    flush_immediately, read_end_notify, pending_requests,
                    requests_to_read, shutdown_stage, shutdown_requested,
                    cancel_token, prod, reqs, flush_task, backup_buffer, buffer,
                    wire, answered, in_stream, rd_pos, read_task, last_read,
                    write_ends, pusher, is_conn_closed, handles, call, auxiliary >>

\* drop() has returned and the awaitable's ArenaArc is dropped.
await_drop_end(i) ==
    /\ i \in aw_drop
    /\ aw_drop' = aw_drop \ {i}
    /\ slots' = [slots EXCEPT ![i] =
                    IF slots[i].live THEN [slots[i] EXCEPT !.held = FALSE] ELSE FreeSlot]
    /\ UNCHANGED << queue, requests_sent, notify, flush_end_notify,
                    flush_immediately, read_end_notify, pending_requests,
                    requests_to_read, shutdown_stage, shutdown_requested,
                    cancel_token, prod, reqs, flush_task, backup_buffer, buffer,
                    wire, answered, in_stream, rd_pos, read_task, last_read,
                    write_ends, pusher, is_conn_closed, handles, call, auxiliary >>

\* Awaitables dropped at any moment while the read task reads the status
\* frames of a stream.
DropNext ==
    \/ read_in_one_packet_call
    \/ \E i \in SlotIds : await_drop_begin(i)
    \/ \E i \in SlotIds : await_drop_end(i)

\* An arena in any state and a stream of status frames.
DropInit ==
    /\ PacketInit
    /\ \A k \in 1 .. Len(in_stream) :
           in_stream[k].type = "hdr" /\ in_stream[k].L = TypeAndIdLen + DataLenPrefix

DropSpec == DropInit /\ [][DropNext]_vars

\* ------------------------------------------- a producer of byte chunks

\* The k-th chunk pushed: 1 .. MaxChunkLen bytes, each byte labelled with the
\* chunk and its place in it.
ChunkLen(k) == 1 + (k % MaxChunkLen)
Chunk(k) == [i \in 1 .. ChunkLen(k) |-> k * 10 + i]

\* Every byte pushed so far, in push order.
Pushed == Flatten([k \in 1 .. prod.n |-> Chunk(k)])

\* A serialized request is pushed to the write buffer and the flush task is
\* woken for it.
push_chunk ==
    /\ prod.pc = "idle"
    /\ prod.n < MaxChunks
    /\ queue' = Append(queue, Chunk(prod.n + 1))
    /\ prod' = [prod EXCEPT !.n = prod.n + 1]
    /\ wakeup_flush_task
    /\ UNCHANGED << slots, requests_sent, notify, read_end_notify,
                    requests_to_read, shutdown_stage, shutdown_requested,
                    cancel_token, reqs, flush_task, backup_buffer, buffer, wire,
                    answered, in_stream, rd_pos, read_task, last_read, conn_vars, call, auxiliary >>

\* ------------------------------------------------------- specifications

\* flush(): the future is dropped while write_vectored is pending.  The local
\* VecDeque goes with it; backup_buffer was emptied by mem::take.  The caller
\* then calls flush() again.
flush_cancelled ==
    /\ flush_task.pc = "write"
    /\ buffer' = << >>
    /\ flush_task' = [flush_task EXCEPT !.pc = "flush"]
    /\ UNCHANGED << queue, flush_end_notify, flush_immediately, read_end_notify,
                    pending_requests, cancel_token, backup_buffer, wire >>
    /\ FlushUnchanged

ProducerStep ==
    \/ create_response_id
    \/ send_request(KindOf(prod.n + 1), InputOf(prod.n + 1))
    \/ bump_requests_to_read
    \/ request_done

AwaitStep ==
    \/ \E r \in Serials : await_ready(r)
    \/ \E r \in Serials : await_drop(r)

FlushStep ==
    \/ flush_wait_end
    \/ flush_tick
    \/ flush_notified_immediately
    \/ flush_load
    \/ flush_notify_read
    \/ flush_swap
    \/ \E n \in 1 .. Len(Flatten(io_slices(buffer))) : flush_write(n)
    \/ flush_sub
    \/ flush_check_stage

ReadStep ==
    \/ read_wait
    \/ read_load
    \/ read_packet
    \/ read_sub
    \/ read_check_stage

ServerStep == \E j \in 1 .. Len(wire) : server_answer(j)

\* The tasks, the producer and a cooperative server.
TaskNext ==
    \/ ProducerStep
    \/ drop_last_write_end
    \/ FlushStep
    \/ ReadStep
    \/ ServerStep

\* The engine with a cooperative server and no stream error.
Next ==
    \/ TaskNext
    \/ AwaitStep

Spec == Init /\ [][Next]_vars

\* The engine under fair scheduling of the producer, the two tasks and the
\* server.
Fairness ==
    /\ WF_vars(ProducerStep)
    /\ WF_vars(FlushStep)
    /\ WF_vars(ReadStep)
    /\ WF_vars(ServerStep)

LiveSpec == Init /\ [][TaskNext]_vars /\ Fairness

\* The engine with stream errors and frames of unknown id.
FaultNext ==
    \/ TaskNext
    \/ await_cancelled
    \/ flush_write_fails
    \/ read_io_error
    \/ server_bogus

FaultSpec == Init /\ [][FaultNext]_vars

\* read_in_one_packet on every frame and slot state.
PacketSpec == PacketInit /\ [][read_in_one_packet_call]_vars

\* flush() on chunks of several bytes.
FlushNext ==
    \/ push_chunk
    \/ FlushStep

FlushSpec == Init /\ [][FlushNext]_vars

\* flush() on chunks of several bytes, cancelled at its write and called again.
CancelNext ==
    \/ FlushNext
    \/ flush_cancelled

CancelSpec == Init /\ [][CancelNext]_vars

\* ------------------------------------- WriteEnd clones and the ReadEnd

WriteEndUnchanged ==
    UNCHANGED << flush_end_notify, flush_immediately, read_end_notify,
                 pending_requests, requests_to_read, shutdown_stage,
                 shutdown_requested, cancel_token, prod, flush_task,
                 backup_buffer, buffer, wire, answered, in_stream, rd_pos,
                 read_task, last_read, aw_drop, call, auxiliary >>

\* One piece of a request in the write buffer or on the outbound stream.
Piece(p, kind) == [req |-> p, id |-> write_ends[p].id, kind |-> kind]

\* SharedData::create_response_id, by the holder of handle p.
we_create_response_id(p) ==
    /\ write_ends[p].pc = "idle"
    /\ LET i == insert_slot(slots)
       IN  /\ slots' = inserted(slots, i)
           /\ write_ends' = [write_ends EXCEPT ![p] = [pc |-> "created", id |-> i]]
    /\ UNCHANGED << queue, requests_sent, notify, reqs, pusher, is_conn_closed,
                    handles >>
    /\ WriteEndUnchanged

\* A send that goes on without registering the input with the slot.
we_reset_skipped(p) ==
    /\ write_ends[p].pc \in {"created", "extended"}
    /\ write_ends' = [write_ends EXCEPT ![p].pc =
                         IF write_ends[p].pc = "created" THEN "reset" ELSE "zc_reset"]
    /\ UNCHANGED << slots, queue, requests_sent, notify, reqs, pusher,
                    is_conn_closed, handles >>
    /\ WriteEndUnchanged

\* id.0.reset(buffer): first thing after serializing in send_request and in
\* the direct variants, after the pushes in the zero-copy variant.
we_reset(p) ==
    /\ write_ends[p].pc \in {"created", "extended"}
    /\ LET i == write_ends[p].id
           zc == write_ends[p].pc = "extended"
       IN  /\ slots' = [slots EXCEPT ![i] =
                           reset(slots[i], IF zc THEN "None" ELSE InputOf(p), p)]
           /\ reqs' = [reqs EXCEPT ![p] =
                          [id |-> i, kind |-> IF zc THEN "hdr" ELSE KindOf(p),
                           aw |-> "waiting", res |-> NoResp, ndeliv |-> 0]]
           /\ write_ends' = [write_ends EXCEPT ![p].pc =
                                IF zc THEN "zc_reset" ELSE "reset"]
    /\ UNCHANGED << queue, requests_sent, notify, pusher, is_conn_closed, handles >>
    /\ WriteEndUnchanged

\* writer().push(serialized): one chunk of several bytes, appended under the
\* queue's lock.
we_push(p) ==
    /\ write_ends[p].pc = "reset"
    /\ pusher = 0
    /\ queue' = Append(queue, << Piece(p, "request"), Piece(p, "request_end") >>)
    /\ write_ends' = [write_ends EXCEPT ![p].pc = "pushed"]
    /\ UNCHANGED << slots, requests_sent, notify, reqs, pusher, is_conn_closed,
                    handles >>
    /\ WriteEndUnchanged

\* A zero-copy send that takes no guard and pushes its chunks one by one.
we_get_pusher_unlocked(p) ==
    /\ write_ends[p].pc = "created"
    /\ write_ends' = [write_ends EXCEPT ![p].pc = "guard"]
    /\ UNCHANGED << slots, queue, requests_sent, notify, reqs, pusher,
                    is_conn_closed, handles >>
    /\ WriteEndUnchanged

\* send_write_request_zero_copy2: let mut queue_pusher = writer().get_pusher()
we_get_pusher(p) ==
    /\ write_ends[p].pc = "created"
    /\ pusher = 0
    /\ pusher' = p
    /\ write_ends' = [write_ends EXCEPT ![p].pc = "guard"]
    /\ UNCHANGED << slots, queue, requests_sent, notify, reqs, is_conn_closed,
                    handles >>
    /\ WriteEndUnchanged

\* queue_pusher.push(header), then queue_pusher.extend_from_exact_size_iter
\* with the data slices.
we_pusher_push(p) ==
    /\ write_ends[p].pc \in {"guard", "header"}
    /\ IF write_ends[p].pc = "guard"
       THEN /\ queue' = Append(queue, << Piece(p, "write_header") >>)
            /\ write_ends' = [write_ends EXCEPT ![p].pc = "header"]
       ELSE /\ queue' = queue \o << << Piece(p, "write_data") >>,
                                    << Piece(p, "write_data") >> >>
            /\ write_ends' = [write_ends EXCEPT ![p].pc = "extended"]
    /\ UNCHANGED << slots, requests_sent, notify, reqs, pusher, is_conn_closed,
                    handles >>
    /\ WriteEndUnchanged

\* shared_data.notify_new_packet_event(): the last statement of every send.
we_notify(p) ==
    /\ write_ends[p].pc \in {"pushed", "written", "zc_reset"}
    /\ notify_new_packet_event
    /\ write_ends' = [write_ends EXCEPT ![p].pc =
                         IF write_ends[p].pc = "zc_reset" THEN "zc_notified" ELSE "sent"]
    /\ UNCHANGED << slots, queue, reqs, pusher, is_conn_closed, handles >>
    /\ WriteEndUnchanged

\* send_write_request_zero_copy2 returns: queue_pusher goes out of scope.
we_release(p) ==
    /\ write_ends[p].pc = "zc_notified"
    /\ pusher' = IF pusher = p THEN 0 ELSE pusher
    /\ write_ends' = [write_ends EXCEPT ![p].pc = "sent"]
    /\ UNCHANGED << slots, queue, requests_sent, notify, reqs, is_conn_closed,
                    handles >>
    /\ WriteEndUnchanged

\* A direct write that puts the header and the data on the stream with two
\* writes.
we_atomic_write_split(p) ==
    /\ \/ /\ write_ends[p].pc = "reset"
          /\ wire' = Append(wire, Piece(p, "direct_header"))
          /\ write_ends' = [write_ends EXCEPT ![p].pc = "header_written"]
       \/ /\ write_ends[p].pc = "header_written"
          /\ wire' = Append(wire, Piece(p, "direct_data"))
          /\ write_ends' = [write_ends EXCEPT ![p].pc = "written"]
    /\ UNCHANGED << slots, queue, requests_sent, notify, flush_end_notify,
                    flush_immediately, read_end_notify, pending_requests,
                    requests_to_read, shutdown_stage, shutdown_requested,
                    cancel_token, prod, reqs, flush_task, backup_buffer, buffer,
                    answered, in_stream, rd_pos, read_task, last_read, pusher,
                    is_conn_closed, handles, aw_drop, call, auxiliary >>

\* send_write_request_direct_atomic*: writer().atomic_write_vectored_all(bufs)
\* completes: header and data go to the stream in one write, past the queue.
we_atomic_write(p) ==
    /\ write_ends[p].pc = "reset"
    /\ wire' = wire \o << Piece(p, "direct_header"), Piece(p, "direct_data") >>
    /\ write_ends' = [write_ends EXCEPT ![p].pc = "written"]
    /\ UNCHANGED << slots, queue, requests_sent, notify, flush_end_notify,
                    flush_immediately, read_end_notify, pending_requests,
                    requests_to_read, shutdown_stage, shutdown_requested,
                    cancel_token, prod, reqs, flush_task, backup_buffer, buffer,
                    answered, in_stream, rd_pos, read_task, last_read, pusher,
                    is_conn_closed, handles, aw_drop, call, auxiliary >>

\* The Id given to a send is dropped without into_inner(): its slot is
\* released.
id_dropped(p, pc) ==
    /\ slots' = [slots EXCEPT ![write_ends[p].id] = FreeSlot]
    /\ reqs' = [reqs EXCEPT ![p] = NoReq]
    /\ write_ends' = [write_ends EXCEPT ![p].pc = pc]
    /\ UNCHANGED << queue, requests_sent, notify, pusher, is_conn_closed, handles >>
    /\ WriteEndUnchanged

\* A cancellation that comes after the atomic write went through.
we_cancelled_late(p) ==
    /\ write_ends[p].pc \in {"reset", "written"}
    /\ id_dropped(p, "cancelled")

\* The future of a direct send is dropped while it is suspended in
\* atomic_write_vectored_all, before the write.
we_cancelled(p) ==
    /\ write_ends[p].pc = "reset"
    /\ id_dropped(p, "cancelled")

\* A failed send that leaves its slot in the arena.
we_failed_leaks(p) ==
    /\ write_ends[p].pc \in {"created", "reset"}
    /\ write_ends' = [write_ends EXCEPT ![p].pc = "failed"]
    /\ UNCHANGED << slots, reqs, queue, requests_sent, notify, pusher,
                    is_conn_closed, handles >>
    /\ WriteEndUnchanged

\* A send returns an error through `?`: serializing the request, the length
\* conversion or AtomicWriteIoSlices::new failed before reset, or the atomic
\* write failed after it.
we_failed(p) ==
    /\ write_ends[p].pc \in {"created", "reset"}
    /\ id_dropped(p, "failed")

\* Drop for SharedData, the body of drop(): the strong count still includes
\* the handle being dropped.
shared_data_drop(p) ==
    /\ write_ends[p].pc \in {"idle", "sent"}
    /\ IF handles = 2
       THEN is_conn_closed' = TRUE /\ notify' = TRUE
       ELSE UNCHANGED << is_conn_closed, notify >>
    /\ write_ends' = [write_ends EXCEPT ![p].pc = "dropping"]
    /\ UNCHANGED << slots, queue, requests_sent, reqs, pusher, handles >>
    /\ WriteEndUnchanged

\* After drop() returned the Arc field is dropped: the strong count goes down.
shared_data_released(p) ==
    /\ write_ends[p].pc = "dropping"
    /\ handles' = handles - 1
    /\ write_ends' = [write_ends EXCEPT ![p].pc = "dropped"]
    /\ UNCHANGED << slots, queue, requests_sent, notify, reqs, pusher,
                    is_conn_closed >>
    /\ WriteEndUnchanged

\* A wait_for_new_request that loads the counter and leaves it as it is.
wait_for_new_request_load ==
    /\ \/ /\ read_task.pc = "poll"
          /\ read_task' = [read_task EXCEPT
                              !.pc = IF requests_sent > 0 THEN "poll" ELSE "closed?",
                              !.cnt = requests_sent]
          /\ UNCHANGED << requests_sent, notify >>
       \/ /\ read_task.pc = "closed?"
          /\ read_task' = [read_task EXCEPT
                              !.pc = IF is_conn_closed THEN "closed" ELSE "notified"]
          /\ UNCHANGED << requests_sent, notify >>
       \/ /\ read_task.pc = "notified"
          /\ notify
          /\ notify' = FALSE
          /\ read_task' = [read_task EXCEPT !.pc = "poll"]
          /\ UNCHANGED requests_sent
    /\ UNCHANGED << slots, queue, flush_end_notify, flush_immediately,
                    read_end_notify, pending_requests, requests_to_read,
                    shutdown_stage, shutdown_requested, cancel_token, prod, reqs,
                    flush_task, backup_buffer, buffer, wire, answered, in_stream,
                    rd_pos, last_read, conn_vars, call, auxiliary >>

\* SharedData::wait_for_new_request, in the ReadEnd's loop: swap the counter,
\* return a count above 0; else return 0 if the connection is closed; else
\* wait to be notified and look again.
wait_for_new_request ==
    /\ \/ /\ read_task.pc = "poll"
          /\ requests_sent' = 0
          /\ read_task' = [read_task EXCEPT
                              !.pc = IF requests_sent > 0 THEN "poll" ELSE "closed?",
                              !.cnt = requests_sent]
          /\ UNCHANGED notify
       \/ /\ read_task.pc = "closed?"
          /\ read_task' = [read_task EXCEPT
                              !.pc = IF is_conn_closed THEN "closed" ELSE "notified"]
          /\ UNCHANGED << requests_sent, notify >>
       \/ /\ read_task.pc = "notified"
          /\ notify
          /\ notify' = FALSE
          /\ read_task' = [read_task EXCEPT !.pc = "poll"]
          /\ UNCHANGED requests_sent
    /\ UNCHANGED << slots, queue, flush_end_notify, flush_immediately,
                    read_end_notify, pending_requests, requests_to_read,
                    shutdown_stage, shutdown_requested, cancel_token, prod, reqs,
                    flush_task, backup_buffer, buffer, wire, answered, in_stream,
                    rd_pos, last_read, conn_vars, call, auxiliary >>

\* flush() is called again after it returned.
flush_called ==
    /\ flush_task.pc = "sub"
    /\ flush_task' = [flush_task EXCEPT !.pc = "flush"]
    /\ UNCHANGED << queue, flush_end_notify, flush_immediately, read_end_notify,
                    pending_requests, cancel_token, backup_buffer, buffer, wire >>
    /\ FlushUnchanged

\* The connection as connect() returns it, with flush() and the ReadEnd's
\* loop about to be called.
ConnInit ==
    /\ slots = [i \in SlotIds |-> FreeSlot]
    /\ queue = << >>
    /\ requests_sent = 0
    /\ notify = FALSE
    /\ flush_end_notify = FALSE
    /\ flush_immediately = FALSE
    /\ read_end_notify = FALSE
    /\ pending_requests = 0
    /\ requests_to_read = 0
    /\ shutdown_stage = 0
    /\ shutdown_requested = FALSE
    /\ cancel_token = FALSE
    /\ prod = [pc |-> "idle", id |-> -1, n |-> 0]
    /\ reqs = [r \in Serials |-> NoReq]
    /\ flush_task = [pc |-> "flush", cnt |-> 0, guard |-> "armed", result |-> "none"]
    /\ backup_buffer = << >>
    /\ buffer = << >>
    /\ wire = << >>
    /\ answered = {}
    /\ in_stream = << >>
    /\ rd_pos = 0
    /\ read_task = [pc |-> "poll", cnt |-> 0, left |-> 0, guard |-> "armed",
                    result |-> "none"]
    /\ last_read = NoRead
    /\ conn_new
    /\ call = NoCall
    /\ auxiliary = [max_pending_requests |-> 1]

\* WriteEnd clones that each send one request, queued or zero-copy, while
\* flush() is called over and over.
PushNext ==
    \/ \E p \in Serials :
           \/ we_create_response_id(p)
           \/ we_reset(p)
           \/ we_push(p)
           \/ we_get_pusher(p)
           \/ we_pusher_push(p)
           \/ we_notify(p)
           \/ we_release(p)
    \/ flush_swap
    \/ \E n \in 1 .. Len(Flatten(io_slices(buffer))) : flush_write(n)
    \/ flush_called

PushSpec == ConnInit /\ [][PushNext]_vars

\* WriteEnd clones that each send one request, queued or direct, with sends
\* that fail and direct sends that are cancelled, while flush() is called
\* over and over.
DirectNext ==
    \/ \E p \in Serials :
           \/ we_create_response_id(p)
           \/ we_reset(p)
           \/ we_push(p)
           \/ we_atomic_write(p)
           \/ we_notify(p)
           \/ we_cancelled(p)
           \/ we_failed(p)
    \/ flush_swap
    \/ \E n \in 1 .. Len(Flatten(io_slices(buffer))) : flush_write(n)
    \/ flush_called

DirectSpec == ConnInit /\ [][DirectNext]_vars

\* WriteEnd clones that send a queued request or none and are dropped, while
\* the ReadEnd loops on wait_for_new_request.
CloseNext ==
    \/ \E p \in Serials :
           \/ we_create_response_id(p)
           \/ we_reset(p)
           \/ we_push(p)
           \/ we_notify(p)
           \/ shared_data_drop(p)
           \/ shared_data_released(p)
    \/ wait_for_new_request

CloseSpec == ConnInit /\ [][CloseNext]_vars

\* ---------------------------------------------------------------- claims

\* Requests whose send_request has returned.
Sent == {r \in Serials : reqs[r].aw # "none"}

\* C1: under a cooperative server every request that was sent has exactly one
\* response delivered to its awaitable: never two, and, once both tasks have
\* exited and nothing more can be delivered, never zero.
C1_ExactlyOneDelivery ==
    /\ \A r \in Serials : reqs[r].ndeliv <= 1
    /\ (read_task.pc = "done" /\ flush_task.pc = "done") =>
           \A r \in Sent : reqs[r].ndeliv = 1

\* C2: read_in_one_packet delivers each response to the slot whose index is
\* the request-id of the frame, so a slot holds, and an awaitable resolves
\* with, the response of its own request, whatever the order of the answers.
C2_DispatchById ==
    /\ \A i \in SlotIds :
           slots[i].st = "Ready" =>
               slots[i].resp.id = i /\ slots[i].resp.req = slots[i].req
    /\ \A r \in Serials :
           reqs[r].aw = "ok" => reqs[r].res.id = reqs[r].id /\ reqs[r].res.req = r

\* C2, its case: the second request is resolved with its own response while
\* the first one, answered as well, has not had its response read yet.
C2_AnsweredOutOfOrder ==
    /\ reqs[2].aw = "ok"
    /\ reqs[2].res.req = 2
    /\ reqs[1].aw = "waiting"
    /\ reqs[1].ndeliv = 0
    /\ 1 \in answered

\* C3: once the last producer handle is dropped, both tasks eventually
\* terminate, if the server keeps answering and the tasks are scheduled.
C3_BothTasksTerminate ==
    (shutdown_stage >= 1) ~> (read_task.pc = "done" /\ flush_task.pc = "done")

\* C3, its case: every request was sent, the handle was dropped, and both
\* tasks have exited.
C3_Terminated ==
    /\ prod.pc = "dropped"
    /\ prod.n = NumReq
    /\ read_task.pc = "done"
    /\ flush_task.pc = "done"

\* C4: the read task exits with success only when the response of every
\* submitted request has been read.
C4_ReadExitsAfterAllRead ==
    read_task.result = "Ok" => \A r \in Sent : reqs[r].ndeliv >= 1

\* C5: the flush task exits with success only after shutdown stage 2, when
\* the read task has finished, and never while a submitted request is still
\* unanswered by the server.
C5_FlushOutlivesRead ==
    flush_task.result = "Ok" =>
        /\ shutdown_stage = 2
        /\ read_task.pc = "done"
        /\ \A r \in Sent : r \in answered

\* C6: in a run without stream I/O error in which the last WriteEnd was
\* dropped, the token is never cancelled and a task that has exited has
\* exited with success, its guard disarmed.
C6_NoCancelAtShutdown ==
    (shutdown_stage >= 1 /\ read_task.result # "IOError"
                         /\ flush_task.result # "IOError") =>
        /\ ~cancel_token
        /\ read_task.pc = "done" => read_task.guard = "disarmed"
        /\ flush_task.pc = "done" => flush_task.guard = "disarmed"
        /\ \A r \in Serials : reqs[r].aw # "err"

\* C7: a task that exits on an error path has cancelled the token through its
\* drop guard; a guard is disarmed only by a task that exits with success;
\* an awaitable is resolved with an awaitable error only by the cancelled
\* token.
C7_GuardCancelsOnError ==
    /\ (flush_task.pc = "done" /\ flush_task.result # "Ok") => cancel_token
    /\ (read_task.pc = "done" /\ read_task.result # "Ok") => cancel_token
    /\ flush_task.guard = "disarmed" =>
           flush_task.pc = "done" /\ flush_task.result = "Ok"
    /\ read_task.guard = "disarmed" =>
           read_task.pc = "done" /\ read_task.result = "Ok"
    /\ \A r \in Serials : reqs[r].aw = "err" => cancel_token

\* C7, its case: the read task has exited on a stream error and an awaitable
\* that was outstanding is resolved with an awaitable error.
C7_ErrorExitCancelled ==
    /\ read_task.pc = "done"
    /\ read_task.result = "IOError"
    /\ read_task.guard = "armed"
    /\ \E r \in Serials : reqs[r].aw = "err"

\* C8: a frame whose request-id has no live slot does not terminate the read
\* task and does not cancel the outstanding awaitables.
C8_InvalidIdKeepsRunning ==
    /\ read_task.result # "InvalidResponseId"
    /\ (read_task.result \notin {"IOError"} /\ flush_task.result # "IOError") =>
           \A r \in Serials : reqs[r].aw # "err"

\* C9: when read_in_one_packet fails with InvalidResponseId, or with the
\* awaitable error of take_input, it has consumed the whole frame, 4 + L
\* bytes, and the reader stands on the next frame boundary.
C9_FailureConsumesFrame ==
    last_read.at \in {"get", "take_input"} =>
        /\ last_read.consumed = DataLenPrefix + last_read.frame.L
        /\ Aligned

\* C9, its case: a frame was skipped after take_input failed, and the next
\* frame waits at the boundary.
C9_SkippedToBoundary ==
    /\ last_read.err = "AwaitableError"
    /\ last_read.at = "take_input"
    /\ last_read.frame.L > TypeAndIdLen + DataLenPrefix
    /\ in_stream # << >>
    /\ Aligned

\* C10: the bytes on the outbound stream, then the bytes flush() still
\* holds, then the bytes still queued are the bytes pushed, in push order;
\* when flush() returns Ok it holds nothing, so it has written exactly the
\* chunks it swapped out.
C10_WireIsPushOrder ==
    /\ wire \o Flatten(buffer) \o Flatten(backup_buffer) \o Flatten(queue) = Pushed
    /\ flush_task.pc = "sub" => buffer = << >> /\ backup_buffer = << >>

\* C10, its case: flush() has returned after every chunk pushed went out.
C10_AllChunksWritten ==
    /\ flush_task.pc = "sub"
    /\ prod.n = MaxChunks
    /\ queue = << >>
    /\ Len(wire) = Len(Pushed)
    /\ Len(wire) > MaxChunks

\* C11: over any sequence of flushes, cancelled or not, the bytes on the
\* outbound stream are a prefix of the bytes pushed, in push order, and a
\* flush that returns with nothing left queued has put every pushed byte on
\* the stream: no byte is lost and none is written twice.
C11_CancelledFlushResumes ==
    /\ Len(wire) <= Len(Pushed)
    /\ wire = Take(Pushed, Len(wire))
    /\ (flush_task.pc = "sub" /\ queue = << >>) => wire = Pushed

\* The outbound bytes in the order they reach the stream: those written,
\* then those flush() holds, then those queued.
Outbound == wire \o Flatten(buffer) \o Flatten(backup_buffer) \o Flatten(queue)

\* C12: the header chunk and the data chunks of a zero-copy send are adjacent
\* in the write buffer and on the stream: between two pieces of one request
\* there is no piece of another, however many producers push.
C12_ZeroCopyAdjacent ==
    \A i \in 1 .. Len(Outbound) : \A k \in i .. Len(Outbound) :
        Outbound[i].req = Outbound[k].req =>
            \A j \in i .. k : Outbound[j].req = Outbound[i].req

\* C12, its case: a zero-copy request is on the stream whole, header first,
\* followed by the request of a producer that had reserved its id earlier.
C12_TwoProducersOnWire ==
    \E i \in 1 .. Len(wire) : \E k \in 1 .. Len(wire) :
        /\ wire[i].kind = "write_header"
        /\ i + 2 <= Len(wire)
        /\ wire[i + 2].kind = "write_data"
        /\ wire[k].req # wire[i].req
        /\ write_ends[wire[k].req].id < write_ends[wire[i].req].id
        /\ k > i

C14_CancelIsAllOrNothing ==
    /\ requests_sent = Cardinality({p \in Serials : write_ends[p].pc = "sent"})
    /\ \A p \in Serials :
           LET on_wire == \E i \in 1 .. Len(wire) : wire[i].req = p
               slot == slots[write_ends[p].id]
           IN  /\ write_ends[p].pc = "cancelled" =>
                      /\ ~on_wire
                      /\ ~(slot.live /\ slot.req = p)
               /\ (\E i \in 1 .. Len(wire) :
                       wire[i].req = p /\ wire[i].kind = "direct_header") =>
                      /\ write_ends[p].pc \in {"written", "sent"}
                      /\ slot.live
                      /\ slot.st = "Pending"
                      /\ slot.req = p

\* C14, its case: one direct send was cancelled and its slot released, another
\* went through: its bytes are on the stream and it is counted.
C14_OneCancelledOneWritten ==
    \E p \in Serials : \E q \in Serials :
        /\ write_ends[p].pc = "cancelled"
        /\ ~slots[write_ends[p].id].live
        /\ write_ends[q].pc = "sent"
        /\ \E i \in 1 .. Len(wire) : wire[i].req = q /\ wire[i].kind = "direct_data"
        /\ requests_sent = 1

C16_OneGroupOneCount ==
    /\ [](/\ requests_sent = Cardinality({p \in Serials :
                                 write_ends[p].pc \in {"zc_notified", "sent"}})
          /\ \A p \in Serials : write_ends[p].pc = "sent" =>
                 Cardinality({i \in 1 .. Len(Outbound) :
                     /\ Outbound[i].req = p
                     /\ Outbound[i].kind \in {"request", "write_header"}}) = 1)
    /\ [][\A p \in Serials : write_ends'[p] # write_ends[p] =>
              /\ \A i \in SlotIds \ {write_ends'[p].id} : slots'[i] = slots[i]
              /\ Len(queue') >= Len(queue)
              /\ SubSeq(queue', 1, Len(queue)) = queue
              /\ \A k \in Len(queue) + 1 .. Len(queue') :
                     \A j \in 1 .. Len(queue'[k]) : queue'[k][j].req = p
              /\ requests_sent' =
                     IF write_ends[p].pc \in {"pushed", "zc_reset"}
                     THEN requests_sent + 1 ELSE requests_sent]_vars

\* C16, its case: a queued send and a zero-copy send have both returned, a
\* group of one chunk and a group of three, counted once each.
C16_BothSent ==
    /\ \A p \in Serials : write_ends[p].pc = "sent"
    /\ requests_sent = NumReq
    /\ \E i \in 1 .. Len(Outbound) : Outbound[i].kind = "request"
    /\ \E i \in 1 .. Len(Outbound) : Outbound[i].kind = "write_header"

\* C17: a request is counted in requests_sent only when its slot is live,
\* its input is registered with the slot and all its bytes are in the write
\* buffer or beyond it; so the count never exceeds the number of live slots
\* that wait for a response.
C17_CountedAfterRegistered ==
    /\ \A p \in Serials : write_ends[p].pc \in {"zc_notified", "sent"} =>
           /\ slots[write_ends[p].id].live
           /\ slots[write_ends[p].id].st = "Pending"
           /\ slots[write_ends[p].id].req = p
           /\ \E i \in 1 .. Len(Outbound) :
                  /\ Outbound[i].req = p
                  /\ Outbound[i].id = write_ends[p].id
                  /\ Outbound[i].kind \in {"request_end", "write_data"}
    /\ requests_sent <=
           Cardinality({i \in SlotIds : slots[i].live /\ slots[i].st = "Pending"})

\* C17, its case: a zero-copy request has just been counted, its bytes
\* already on the stream, while another producer holds a slot that is not
\* yet registered and not counted.
C17_CountedWhileOtherUnregistered ==
    \E p \in Serials : \E q \in Serials :
        /\ write_ends[p].pc = "zc_notified"
        /\ \E i \in 1 .. Len(wire) : wire[i].req = p /\ wire[i].kind = "write_data"
        /\ write_ends[q].pc = "created"
        /\ slots[write_ends[q].id].st = "Uninit"
        /\ requests_sent = 1

\* C18: in every interleaving of the drop of an awaitable with the delivery
\* of its response no slot is leaked: a slot that is still in the arena is
\* held by its awaitable or still waits for the response that will make the
\* read task remove it.
C18_NoSlotLeaked ==
    \A i \in SlotIds :
        (slots[i].live /\ ~slots[i].held) => slots[i].st = "Pending"

C20_ClosedWhenAllDropped ==
    (\A p \in Serials : write_ends[p].pc = "dropped") =>
        /\ is_conn_closed
        /\ read_task.pc = "notified" => notify

\* C21: pending_requests never underflows: the count the flush task is about
\* to subtract is at most the value of the counter, whatever the producers
\* add in between, and the counter is never negative.
C21_NoUnderflow ==
    /\ pending_requests >= 0
    /\ flush_task.pc \in {"notify_read", "flush", "write", "sub"} =>
           flush_task.cnt <= pending_requests

\* C21, its case: the flush task is about to subtract a count above 0 from
\* a counter that a producer has raised since the count was loaded.
C21_SubtractAfterIncrement ==
    /\ flush_task.pc = "sub"
    /\ flush_task.cnt > 0
    /\ pending_requests > flush_task.cnt

\* C22: when the flush task has subtracted its count and is not draining,
\* and no producer is in the middle of a send, pending_requests is the number
\* of requests in the write buffer that were not drained; it is 0 when the
\* write buffer is empty.
C22_PendingIsUndrained ==
    (/\ flush_task.pc \in {"check_stage", "wait_end", "select", "load"}
     /\ prod.pc \in {"idle", "dropped"}) =>
        pending_requests = Len(queue)

\* C23: a send notifies flush_immediately exactly when the counter, after
\* the increment of that send, equals max_pending_requests: such a send
\* leaves the notification stored, and no other send stores it.
C23_NotifiesAtThreshold ==
    [][pending_requests' = pending_requests + 1 =>
           /\ pending_requests' = max_pending_requests => flush_immediately'
           /\ (flush_immediately' /\ ~flush_immediately) =>
                  pending_requests' = max_pending_requests]_vars

\* C24: backpressure bounds buffering: the push that raises the counter above
\* max_pending_requests triggers flush_immediately, and no further push takes
\* effect before the flush task has drained; so neither the counter nor the
\* number of chunks waiting in the write buffer exceeds max_pending_requests + 1.
C24_BufferingBounded ==
    /\ pending_requests <= max_pending_requests + 1
    /\ Len(queue) <= max_pending_requests + 1

\* C25: a woken flush task keeps draining until the value left by its
\* subtraction is below max_pending_requests: it leaves the loop exactly when
\* that value is below the maximum, and it never waits for the next wake-up
\* holding a value at or above it.
C25_DrainsBelowMax ==
    /\ [](flush_task.pc \in {"check_stage", "wait_end", "select"} =>
              flush_task.cnt < max_pending_requests)
    /\ [][(flush_task.pc = "sub" /\ flush_task'.pc # "sub") =>
              /\ flush_task'.cnt = pending_requests'
              /\ flush_task'.pc = "check_stage" <=>
                     flush_task'.cnt < max_pending_requests
              /\ flush_task'.pc = "notify_read" <=>
                     flush_task'.cnt >= max_pending_requests]_vars

C25_DrainedAndWaiting ==
    /\ flush_task.pc = "wait_end"
    /\ wire # << >>
    /\ flush_task.cnt < max_pending_requests
    /\ pending_requests >= max_pending_requests

\* ------------------------------------------- functions applied on their own

CallUnchanged ==
    UNCHANGED << slots, queue, requests_sent, notify, flush_end_notify,
                 flush_immediately, read_end_notify, pending_requests,
                 requests_to_read, shutdown_stage, shutdown_requested,
                 cancel_token, prod, reqs, flush_task, backup_buffer, buffer,
                 wire, answered, in_stream, rd_pos, read_task, last_read,
                 conn_vars, auxiliary >>

\* Data bytes of a data response: 0 .. MaxN.
MaxN == 3

\* Length of a slice registered as the buffer of a read request: 0 .. MaxSlice.
MaxSlice == 4

\* Bytes in the stream behind the data response, before it ends: 0 .. MaxRest.
MaxRest == 2

\* The buffer registered with a read request: none, or one of the shapes
\* ToBuffer::get_buffer hands out; cap is the length of a slice.
Buffers ==
    {[kind |-> k, cap |-> 0] : k \in {"None", "Vector", "Bytes"}}
        \cup {[kind |-> "Slice", cap |-> c] : c \in 0 .. MaxSlice}

\* reader.read_exact(buf) on a stream that holds `avail` more bytes: the whole
\* of buf is filled, or the stream ends first.
read_exact(want, avail, kind) ==
    IF want <= avail
    THEN [err |-> "Ok", kind |-> kind, read |-> want, stored |-> want]
    ELSE [err |-> "IoError", kind |-> "none", read |-> avail, stored |-> avail]

\* read_in_data_packet_fallback, read_into_box: a new box of len bytes.
read_in_data_packet_fallback(len, avail) == read_exact(len, avail, "AllocatedBox")

\* read_in_data_packet after the 4-byte length of the string, by the shape of
\* the buffer: a vector or Bytes takes len bytes, a slice that is long enough
\* is handed to read_exact as it is, anything else falls back to a box.
read_in_data_packet_buffer(len, buf, avail) ==
    LET n == len - DataLenPrefix
    IN  CASE buf.kind = "None" -> read_in_data_packet_fallback(n, avail)
          [] buf.kind = "Vector" -> read_exact(n, avail, "Buffer")
          [] buf.kind = "Bytes" -> read_exact(n, avail, "Buffer")
          [] buf.kind = "Slice" ->
                 IF buf.cap >= n THEN read_exact(buf.cap, avail, "Buffer")
                 ELSE read_in_data_packet_fallback(n, avail)

\* A data response of n bytes is at the head of the stream, `rest` bytes
\* follow it, and the request registered `buf`.
DataInit ==
    /\ engine_new
    /\ auxiliary = [max_pending_requests |-> 1]
    /\ \E n \in 0 .. MaxN, buf \in Buffers, rest \in 0 .. MaxRest :
           call = [fn |-> "read_in_data_packet", pc |-> "called",
                   len |-> DataLenPrefix + n, buf |-> buf, rest |-> rest,
                   out |-> [err |-> "none", kind |-> "none", read |-> 0,
                            stored |-> 0]]

read_in_data_packet_returns ==
    /\ call.fn = "read_in_data_packet"
    /\ call.pc = "called"
    /\ call' = [call EXCEPT
                   !.pc = "returned",
                   !.out = read_in_data_packet_buffer(
                               call.len, call.buf,
                               call.len - DataLenPrefix + call.rest)]
    /\ CallUnchanged

DataSpec == DataInit /\ [][read_in_data_packet_returns]_vars

\* C26: a data response of n bytes is never truncated: without a registered
\* buffer, or with a slice shorter than n, it comes back in a new box holding
\* all n bytes; with a buffer that can take it, the buffer is filled in place
\* with exactly the n bytes of the response.
C26_DataNeverTruncated ==
    (call.fn = "read_in_data_packet" /\ call.pc = "returned") =>
        LET n == call.len - DataLenPrefix
            fits == \/ call.buf.kind \in {"Vector", "Bytes"}
                    \/ call.buf.kind = "Slice" /\ call.buf.cap >= n
        IN  /\ call.out.err = "Ok"
            /\ call.out.kind = IF fits THEN "Buffer" ELSE "AllocatedBox"
            /\ call.out.stored = n
            /\ call.out.read = n

\* ------------------------------------------------------- the server hello

\* if (len as usize) > 4096 { return Err(SftpServerHelloMsgTooLong) }
HelloLimit == 4096

\* let len: u32 = self.read_and_deserialize(4): bytes of the length prefix.
HelloPrefixLen == 4

\* Length prefixes tried: HelloLimit - MaxOver .. HelloLimit + MaxOver.
MaxOver == 2

\* The version the client announces in its hello.
SSH2_FILEXFER_VERSION == 3

\* Versions a server announces: SSH2_FILEXFER_VERSION .. MaxVersion.
MaxVersion == 4

Versions == SSH2_FILEXFER_VERSION .. MaxVersion

\* The server's answer to the hello: its length prefix, the version and the
\* extensions it announces, and what the bytes behind the prefix are: a
\* ServerVersion ("ok"), bytes that do not deserialize ("malformed"), or a
\* stream that ends before `len` bytes have come ("short").
Hellos ==
    [len : (HelloLimit - MaxOver) .. (HelloLimit + MaxOver),
     version : Versions,
     extensions : {{}, {"fsync"}},
     payload : {"ok", "malformed", "short"}]

NoOutcome == [err |-> "none", info |-> -1, extensions |-> {}, consumed |-> 0,
              ends |-> FALSE]

\* A length check that already refuses a hello of HelloLimit bytes.
receive_server_version_strict(version, hello) ==
    IF hello.len >= HelloLimit
    THEN [NoOutcome EXCEPT !.err = "SftpServerHelloMsgTooLong", !.info = hello.len,
                           !.consumed = HelloPrefixLen]
    ELSE IF hello.payload = "short"
    THEN [NoOutcome EXCEPT !.err = "IoError", !.consumed = HelloPrefixLen]
    ELSE IF hello.payload = "malformed"
    THEN [NoOutcome EXCEPT !.err = "FormatError",
                           !.consumed = HelloPrefixLen + hello.len]
    ELSE IF hello.version # version
    THEN [NoOutcome EXCEPT !.err = "UnsupportedSftpProtocol",
                           !.info = hello.version,
                           !.consumed = HelloPrefixLen + hello.len]
    ELSE [NoOutcome EXCEPT !.err = "Ok", !.extensions = hello.extensions,
                           !.consumed = HelloPrefixLen + hello.len]

\* ReadEnd::receive_server_version: the length prefix, the check against
\* HelloLimit, the payload, its deserialization, the comparison of versions.
receive_server_version(version, hello) ==
    IF hello.len > HelloLimit
    THEN [NoOutcome EXCEPT !.err = "SftpServerHelloMsgTooLong", !.info = hello.len,
                           !.consumed = HelloPrefixLen]
    ELSE IF hello.payload = "short"
    THEN [NoOutcome EXCEPT !.err = "IoError", !.consumed = HelloPrefixLen]
    ELSE IF hello.payload = "malformed"
    THEN [NoOutcome EXCEPT !.err = "FormatError",
                           !.consumed = HelloPrefixLen + hello.len]
    ELSE IF hello.version # version
    THEN [NoOutcome EXCEPT !.err = "UnsupportedSftpProtocol",
                           !.info = hello.version,
                           !.consumed = HelloPrefixLen + hello.len]
    ELSE [NoOutcome EXCEPT !.err = "Ok", !.extensions = hello.extensions,
                           !.consumed = HelloPrefixLen + hello.len]

\* connect_with_auxiliary: the two ends are made and the hello is sent, then
\* the server's hello is received; the ends are returned with the extensions
\* only if both went well.
connect_with_auxiliary(sent, hello) ==
    IF ~sent THEN [NoOutcome EXCEPT !.err = "IoError"]
    ELSE LET r == receive_server_version(SSH2_FILEXFER_VERSION, hello)
         IN  [r EXCEPT !.ends = (r.err = "Ok")]

\* Connection::new, Connection::negotiate: the hello is written, the answer
\* is read whatever its length, and the versions are compared; the error
\* carries nothing and the extensions are not returned.
negotiate(sent, hello) ==
    IF ~sent THEN [NoOutcome EXCEPT !.err = "IoError"]
    ELSE IF hello.payload = "short"
    THEN [NoOutcome EXCEPT !.err = "IoError", !.consumed = HelloPrefixLen]
    ELSE IF hello.payload = "malformed"
    THEN [NoOutcome EXCEPT !.err = "FormatError",
                           !.consumed = HelloPrefixLen + hello.len]
    ELSE IF hello.version # SSH2_FILEXFER_VERSION
    THEN [NoOutcome EXCEPT !.err = "UnsupportedSftpProtocol",
                           !.consumed = HelloPrefixLen + hello.len]
    ELSE [NoOutcome EXCEPT !.err = "Ok", !.ends = TRUE,
                           !.consumed = HelloPrefixLen + hello.len]

\* A handshake is about to run on a server's hello: receive_server_version
\* with any client version, or one of the two connecting functions, whose
\* own hello was written or not.
HelloInit ==
    /\ engine_new
    /\ auxiliary = [max_pending_requests |-> 1]
    /\ \E hello \in Hellos :
           \/ \E v \in Versions :
                  call = [fn |-> "receive_server_version", pc |-> "called",
                          version |-> v, sent |-> TRUE, hello |-> hello,
                          out |-> NoOutcome]
           \/ \E f \in {"connect_with_auxiliary", "Connection::new"},
                 w \in BOOLEAN :
                  call = [fn |-> f, pc |-> "called",
                          version |-> SSH2_FILEXFER_VERSION, sent |-> w,
                          hello |-> hello, out |-> NoOutcome]

receive_server_version_returns ==
    /\ call.fn = "receive_server_version"
    /\ call.pc = "called"
    /\ call' = [call EXCEPT !.pc = "returned",
                            !.out = receive_server_version(call.version, call.hello)]
    /\ CallUnchanged

connect_with_auxiliary_returns ==
    /\ call.fn = "connect_with_auxiliary"
    /\ call.pc = "called"
    /\ call' = [call EXCEPT !.pc = "returned",
                            !.out = connect_with_auxiliary(call.sent, call.hello)]
    /\ CallUnchanged

Connection_new_returns ==
    /\ call.fn = "Connection::new"
    /\ call.pc = "called"
    /\ call' = [call EXCEPT !.pc = "returned",
                            !.out = negotiate(call.sent, call.hello)]
    /\ CallUnchanged

HelloNext ==
    \/ receive_server_version_returns
    \/ connect_with_auxiliary_returns
    \/ Connection_new_returns

HelloSpec == HelloInit /\ [][HelloNext]_vars

\* C27: receiving the server hello fails with SftpServerHelloMsgTooLong,
\* with nothing but the length prefix taken off the stream, when the prefix
\* is above 4096; a prefix of at most 4096 is never refused for its length,
\* and a well-formed hello of that length with the client's version succeeds
\* once its payload is read.
C27_HelloLengthLimit ==
    (call.fn = "receive_server_version" /\ call.pc = "returned") =>
        /\ call.hello.len > HelloLimit =>
               /\ call.out.err = "SftpServerHelloMsgTooLong"
               /\ call.out.info = call.hello.len
               /\ call.out.consumed = HelloPrefixLen
        /\ call.hello.len <= HelloLimit =>
               /\ call.out.err # "SftpServerHelloMsgTooLong"
               /\ (call.hello.payload = "ok" /\ call.hello.version = call.version) =>
                      /\ call.out.err = "Ok"
                      /\ call.out.consumed = HelloPrefixLen + call.hello.len

C27_HelloAtLimitAccepted ==
    /\ call.fn = "receive_server_version"
    /\ call.pc = "returned"
    /\ call.hello.len = HelloLimit
    /\ call.out.err = "Ok"

\* C28: on a well-formed hello the handshake succeeds, returning the server's
\* extensions (and, when connecting, the two ends), if and only if the
\* server's version is the client's; for any other version it fails with
\* UnsupportedSftpProtocol carrying the server's version and hands out no end.
C28_VersionDecidesHandshake ==
    (/\ call.fn \in {"receive_server_version", "connect_with_auxiliary",
                     "Connection::new"}
     /\ call.pc = "returned"
     /\ call.sent
     /\ call.hello.payload = "ok"
     /\ call.hello.len <= HelloLimit) =>
        IF call.hello.version = call.version
        THEN /\ call.out.err = "Ok"
             /\ call.out.extensions = call.hello.extensions
             /\ call.fn # "receive_server_version" => call.out.ends
        ELSE /\ call.out.err = "UnsupportedSftpProtocol"
             /\ call.out.info = call.hello.version
             /\ ~call.out.ends

\* ------------------------------------------- the length of a write request

\* Width of the length of a write request, in bits (the code's u32, narrowed).
U32Bits == 3

U32_MAX == 2 ^ U32Bits - 1

\* Slices of one write request: 0 .. MaxParts.
MaxParts == 2

RECURSIVE Sum(_)
Sum(lens) == IF lens = << >> THEN 0 ELSE Head(lens) + Sum(Tail(lens))

\* The payloads tried: up to MaxParts slices of 0 .. U32_MAX + 1 bytes each.
Payloads ==
    UNION {[1 .. k -> 0 .. U32_MAX + 1] : k \in 0 .. MaxParts}

\* A conversion that refuses the largest length a u32 holds.
try_into_u32_strict(len) ==
    IF len < U32_MAX THEN [err |-> "Ok", len |-> len]
    ELSE [err |-> "BufferTooLong", len |-> 0]

\* let len: u32 = len.try_into()?  (usize is wider than u32)
try_into_u32(len) ==
    IF len <= U32_MAX THEN [err |-> "Ok", len |-> len]
    ELSE [err |-> "BufferTooLong", len |-> 0]

\* The chunks a queued write request puts into the write buffer: header and
\* copied slices in one chunk, or, zero-copy, the header and then one chunk
\* for each slice.
write_chunks(fn, p, bufs) ==
    LET piece(kind, n) == [req |-> p, id |-> write_ends[p].id, kind |-> kind, n |-> n]
        data == [k \in 1 .. Len(bufs) |-> piece("write_data", bufs[k])]
    IN  IF fn = "send_write_request_zero_copy2"
        THEN << << piece("write_header", 0) >> >>
                 \o [k \in 1 .. Len(bufs) |-> << data[k] >>]
        ELSE << << piece("write_header", 0) >> \o data >>

\* send_write_request_buffered, send_write_request_buffered_vectored2 and
\* send_write_request_zero_copy2: the lengths of the slices are summed and
\* converted; on success the slot is reset, the chunks are pushed and the
\* request is counted, on failure the Id is dropped.
send_write_request(p) ==
    /\ write_ends[p].pc = "created"
    /\ call.pc = "called"
    /\ LET r == try_into_u32(Sum(call.bufs))
           i == write_ends[p].id
       IN  /\ call' = [call EXCEPT !.pc = "returned", !.out = r]
           /\ IF r.err = "Ok"
              THEN /\ slots' = [slots EXCEPT ![i] = reset(slots[i], "None", p)]
                   /\ reqs' = [reqs EXCEPT ![p] =
                                  [id |-> i, kind |-> "hdr", aw |-> "waiting",
                                   res |-> NoResp, ndeliv |-> 0]]
                   /\ queue' = queue \o write_chunks(call.fn, p, call.bufs)
                   /\ notify_new_packet_event
                   /\ write_ends' = [write_ends EXCEPT ![p].pc = "sent"]
              ELSE /\ slots' = [slots EXCEPT ![i] = FreeSlot]
                   /\ reqs' = [reqs EXCEPT ![p] = NoReq]
                   /\ write_ends' = [write_ends EXCEPT ![p].pc = "failed"]
                   /\ UNCHANGED << queue, requests_sent, notify >>
    /\ UNCHANGED << flush_end_notify, flush_immediately, read_end_notify,
                    pending_requests, requests_to_read, shutdown_stage,
                    shutdown_requested, cancel_token, prod, flush_task,
                    backup_buffer, buffer, wire, answered, in_stream, rd_pos,
                    read_task, last_read, pusher, is_conn_closed, handles,
                    aw_drop, auxiliary >>

\* A write request is about to be sent by the first handle: the variant and
\* the lengths of the slices of its payload; the buffered variant takes one
\* slice.
WriteInit ==
    /\ engine_new
    /\ auxiliary = [max_pending_requests |-> 1]
    /\ \E f \in {"send_write_request_buffered",
                 "send_write_request_buffered_vectored2",
                 "send_write_request_zero_copy2"},
          bufs \in Payloads :
           /\ f = "send_write_request_buffered" => Len(bufs) = 1
           /\ call = [fn |-> f, pc |-> "called", bufs |-> bufs,
                      out |-> [err |-> "none", len |-> 0]]

WriteNext ==
    \/ we_create_response_id(1)
    \/ send_write_request(1)

WriteSpec == WriteInit /\ [][WriteNext]_vars

\* Bytes of payload in the write buffer.
QueuedData ==
    LET f == Flatten(queue)
    IN  Sum([k \in 1 .. Len(f) |-> IF f[k].kind = "write_data" THEN f[k].n ELSE 0])

C30_EmptyFlushIsNoOp ==
    [][(flush_task.pc = "flush" /\ queue = << >> /\ flush_task'.pc # "flush") =>
           /\ flush_task' = [flush_task EXCEPT !.pc = "sub"]
           /\ wire' = wire
           /\ queue' = << >>
           /\ backup_buffer' = << >>
           /\ buffer' = << >>
           /\ UNCHANGED << slots, requests_sent, notify, flush_end_notify,
                           flush_immediately, read_end_notify, pending_requests,
                           prod, backup_buffer >>]_vars

C30_FlushOfEmptyBuffer ==
    /\ flush_task.pc = "flush"
    /\ queue = << >>
    /\ backup_buffer = << >>
    /\ wire # << >>
    /\ flush_task.cnt >= max_pending_requests

\* C31: shutdown_stage only moves forward, 0 to 1 to 2: it never decreases,
\* it becomes 2 only by a step of the read task that found it at 1, and once
\* it is 2 it stays 2.
C31_StageMovesForward ==
    /\ [](shutdown_stage \in 0 .. 2)
    /\ [][/\ shutdown_stage' >= shutdown_stage
          /\ shutdown_stage' <= shutdown_stage + 1
          /\ (shutdown_stage' = 2 /\ shutdown_stage # 2) =>
                 /\ shutdown_stage = 1
                 /\ read_task.pc = "check_stage"
                 /\ read_task'.pc = "done"
                 /\ flush_task' = flush_task
                 /\ prod' = prod]_vars

C31_StageTwoReached ==
    /\ shutdown_stage = 2
    /\ read_task.pc = "done"
    /\ read_task.result = "Ok"

\* C32: a call of read_in_one_packet on a data frame that meets no stream
\* error consumes exactly 4 + L bytes, whatever the buffer registered with the
\* request: the 9 bytes of length, type and id, the 4-byte length of the
\* string and the data add up to the length prefix plus the length field L.
C32_DataFrameConsumedWhole ==
    (call.fn = "read_in_data_packet" /\ call.pc = "returned" /\ call.out.err = "Ok") =>
        LET frame == [L |-> TypeAndIdLen + call.len]
            consumed == FrameHeaderLen + DataLenPrefix + call.out.read
        IN  consumed = FrameSize(frame)

\* C33: wait_for_new_request returns 0 only when the connection is closed and
\* every request sent has been reported by an earlier return: when it has
\* returned 0, no sent request is left in requests_sent.
C33_ZeroOnlyWhenAllCounted ==
    read_task.pc = "closed" => (is_conn_closed /\ requests_sent = 0)

\* C34: the values returned by wait_for_new_request plus the current
\* requests_sent always add up to the number of notify_new_packet_event calls:
\* the counter changes only by a send, which adds one, and by the reader's
\* swap, which returns all of it and leaves 0; every send adds its one, and
\* the reader returns nothing but what it took from the counter.
C34_SentCountConserved ==
    [][/\ requests_sent' # requests_sent =>
              \/ /\ requests_sent' = requests_sent + 1
                 /\ read_task' = read_task
                 /\ \E p \in Serials :
                        write_ends[p].pc = "pushed" /\ write_ends'[p].pc = "sent"
              \/ /\ read_task.pc = "poll"
                 /\ requests_sent' = 0
                 /\ read_task'.cnt = requests_sent
                 /\ write_ends' = write_ends
       /\ (\E p \in Serials : write_ends[p].pc # "sent" /\ write_ends'[p].pc = "sent") =>
              requests_sent' = requests_sent + 1
       /\ (read_task.pc = "poll" /\ read_task' # read_task) =>
              /\ read_task'.cnt = requests_sent
              /\ requests_sent' = 0]_vars

C34_ReturnedOneAndOneWaiting ==
    /\ read_task.pc = "poll"
    /\ read_task.cnt = 1
    /\ requests_sent = 1

\* Calls of read_in_one_packet that have returned: the frames the server has
\* put on the inbound stream that are no longer there.
PacketsRead == Cardinality(answered) - Len(in_stream)

\* C35: the read task never starts more read_in_one_packet calls than
\* requests were submitted: the calls that have returned, the call under way
\* and the calls still to come in the current round never outnumber the
\* requests sent so far.
C35_ReadsWithinSubmitted ==
    /\ PacketsRead >= 0
    /\ PacketsRead + (IF read_task.pc = "read" THEN 1 ELSE 0) <= Cardinality(Sent)
    /\ read_task.pc = "read" => PacketsRead + read_task.left <= Cardinality(Sent)

C35_ReadStartedBeforeAnswer ==
    /\ read_task.pc = "read"
    /\ in_stream = << >>
    /\ PacketsRead = 1
    /\ Cardinality(Sent) = 2

\* ------------------------------- an engine that lets more requests pend

\* max_pending_requests of a connection that lets two requests pend.
MaxPending == 2

WideInit ==
    /\ engine_new
    /\ call = NoCall
    /\ auxiliary = [max_pending_requests |-> MaxPending]

\* The engine of LiveSpec, made with max_pending_requests = MaxPending.
WideSpec == WideInit /\ [][TaskNext]_vars /\ Fairness

\* The send of request r has returned and the flush task was woken for it.
SendDone(r) ==
    \/ prod.n > r
    \/ prod.n = r /\ prod.pc \in {"idle", "dropped"}

\* Request r is on the outbound stream.
Written(r) == \E j \in 1 .. Len(wire) : wire[j].req = r

\* C36: every request whose send has completed, with the flush task woken
\* through wakeup_flush_task, is eventually written to the outbound stream,
\* when the flush task is scheduled fairly and its writes succeed.
C36_SentIsEventuallyWritten ==
    \A r \in Serials : SendDone(r) ~> Written(r)

\* C38: whenever the flush task finds shutdown_stage at 2 at the end of a
\* drain round, the pending count it has just computed is 0.
C38_NothingPendingAtExit ==
    (flush_task.pc = "check_stage" /\ shutdown_stage = 2) => flush_task.cnt = 0

\* ------------------------------------------ direct atomic vectored writes

\* Slots for data in the array of io-slices (the code's 29 of 30, narrowed).
IoSliceSlots == 2

\* Slices in one group of the payload: 0 .. MaxGroup.
MaxGroup == 2

\* The payloads tried: up to IoSliceSlots + 1 groups of 0 .. MaxGroup slices;
\* a group is given by the number of its slices, each slice is one byte.
GroupedPayloads ==
    UNION {[1 .. g -> 0 .. MaxGroup] : g \in 0 .. IoSliceSlots + 1}

\* data.iter().flat_map(Deref::deref): the slices of all groups in order,
\* each named by its group and its place in the group.
RECURSIVE flat_map(_, _)
flat_map(data, g) ==
    IF g > Len(data) THEN << >>
    ELSE [k \in 1 .. data[g] |-> [g |-> g, k |-> k]] \o flat_map(data, g + 1)

\* The io-slices handed to the atomic write: with at most IoSliceSlots groups
\* the header and the flattened slices are zipped into the array, which ends
\* the copy when the array is full; with more groups a vector takes the
\* header and every group.
direct_io_slices(data) ==
    LET slices == flat_map(data, 1)
    IN  IF Len(data) <= IoSliceSlots
        THEN Take(slices, Min({Len(slices), IoSliceSlots}))
        ELSE slices

\* send_write_request_direct_atomic_vectored2: the length of all slices goes
\* into the header, the io-slices are written in one atomic write, the
\* request is counted.
send_write_request_direct_atomic_vectored2(p) ==
    /\ write_ends[p].pc = "created"
    /\ call.pc = "called"
    /\ LET r == try_into_u32(Len(flat_map(call.data, 1)))
           i == write_ends[p].id
           piece(kind, n, sl) ==
               [req |-> p, id |-> i, kind |-> kind, n |-> n, slice |-> sl]
           io == direct_io_slices(call.data)
       IN  /\ call' = [call EXCEPT !.pc = "returned", !.out = r]
           /\ IF r.err = "Ok"
              THEN /\ slots' = [slots EXCEPT ![i] = reset(slots[i], "None", p)]
                   /\ reqs' = [reqs EXCEPT ![p] =
                                  [id |-> i, kind |-> "hdr", aw |-> "waiting",
                                   res |-> NoResp, ndeliv |-> 0]]
                   /\ wire' = wire \o << piece("direct_header", r.len, [g |-> 0, k |-> 0]) >>
                                   \o [j \in 1 .. Len(io) |-> piece("direct_data", 1, io[j])]
                   /\ notify_new_packet_event
                   /\ write_ends' = [write_ends EXCEPT ![p].pc = "sent"]
              ELSE /\ slots' = [slots EXCEPT ![i] = FreeSlot]
                   /\ reqs' = [reqs EXCEPT ![p] = NoReq]
                   /\ write_ends' = [write_ends EXCEPT ![p].pc = "failed"]
                   /\ UNCHANGED << wire, requests_sent, notify >>
    /\ UNCHANGED << queue, flush_end_notify, flush_immediately, read_end_notify,
                    pending_requests, requests_to_read, shutdown_stage,
                    shutdown_requested, cancel_token, prod, flush_task,
                    backup_buffer, buffer, answered, in_stream, rd_pos,
                    read_task, last_read, pusher, is_conn_closed, handles,
                    aw_drop, auxiliary >>

\* A direct atomic vectored write is about to be made by the first handle.
VectoredInit ==
    /\ engine_new
    /\ auxiliary = [max_pending_requests |-> 1]
    /\ \E data \in GroupedPayloads :
           call = [fn |-> "send_write_request_direct_atomic_vectored2",
                   pc |-> "called", data |-> data,
                   out |-> [err |-> "none", len |-> 0]]

VectoredNext ==
    \/ we_create_response_id(1)
    \/ send_write_request_direct_atomic_vectored2(1)

VectoredSpec == VectoredInit /\ [][VectoredNext]_vars

\* C37: a successful direct atomic vectored write puts the header and then
\* every slice of every group, in order, on the outbound stream, and the data
\* length declared in the header is the number of data bytes written,
\* whatever the number and grouping of the slices.
C37_EverySliceWritten ==
    (call.pc = "returned" /\ call.out.err = "Ok") =>
        LET slices == flat_map(call.data, 1)
        IN  /\ Len(wire) = 1 + Len(slices)
            /\ wire[1].kind = "direct_header"
            /\ wire[1].n = Len(slices)
            /\ \A j \in 1 .. Len(slices) :
                   wire[1 + j].kind = "direct_data" /\ wire[1 + j].slice = slices[j]

\* ------------------------------------------- dropping the ReadEnd as well

\* The ReadEnd is dropped: its SharedData field runs the body of Drop for
\* SharedData, with the strong count that still includes the ReadEnd.
read_end_drop ==
    /\ read_task.pc \notin {"dropping", "dropped"}
    /\ IF handles = 2
       THEN is_conn_closed' = TRUE /\ notify' = TRUE
       ELSE UNCHANGED << is_conn_closed, notify >>
    /\ read_task' = [read_task EXCEPT !.pc = "dropping"]
    /\ UNCHANGED << slots, queue, requests_sent, flush_end_notify,
                    flush_immediately, read_end_notify, pending_requests,
                    requests_to_read, shutdown_stage, shutdown_requested,
                    cancel_token, prod, reqs, flush_task, backup_buffer, buffer,
                    wire, answered, in_stream, rd_pos, last_read, write_ends,
                    pusher, handles, aw_drop, call, auxiliary >>

\* After drop() returned the ReadEnd's Arc is dropped.
read_end_released ==
    /\ read_task.pc = "dropping"
    /\ handles' = handles - 1
    /\ read_task' = [read_task EXCEPT !.pc = "dropped"]
    /\ UNCHANGED << slots, queue, requests_sent, notify, flush_end_notify,
                    flush_immediately, read_end_notify, pending_requests,
                    requests_to_read, shutdown_stage, shutdown_requested,
                    cancel_token, prod, reqs, flush_task, backup_buffer, buffer,
                    wire, answered, in_stream, rd_pos, last_read, write_ends,
                    pusher, is_conn_closed, aw_drop, call, auxiliary >>

\* WriteEnd clones that send a queued request or none and are dropped, and
\* the ReadEnd that loops on wait_for_new_request and is dropped, in any
\* order.
ReleaseNext ==
    \/ \E p \in Serials :
           \/ we_create_response_id(p)
           \/ we_reset(p)
           \/ we_push(p)
           \/ we_notify(p)
           \/ shared_data_drop(p)
           \/ shared_data_released(p)
    \/ wait_for_new_request
    \/ read_end_drop
    \/ read_end_released

ReleaseSpec == ConnInit /\ [][ReleaseNext]_vars

\* The body of drop() of handle p, or of the ReadEnd, runs in this step.
DropBody ==
    \/ \E p \in Serials :
           write_ends[p].pc # "dropping" /\ write_ends'[p].pc = "dropping"
    \/ read_task.pc # "dropping" /\ read_task'.pc = "dropping"

\* The ReadEnd and a producer-side handle other than the one whose drop()
\* runs in this step are alive.
BothSidesAlive ==
    /\ read_task'.pc \notin {"dropping", "dropped"}
    /\ \E p \in Serials : write_ends'[p].pc \notin {"dropping", "dropped"}

\* C39: is_conn_closed is set at most once: a drop() that finds the strong
\* count 2 and swaps the flag never finds it already true, in every order of
\* dropping the WriteEnd clones and the ReadEnd; and the flag is never set
\* while the ReadEnd and a producer-side handle are both still alive.
C39_ClosedSetOnce ==
    [][(DropBody /\ handles = 2) =>
           (~is_conn_closed /\ ~BothSidesAlive)]_vars

\* --------------------------------------- the length field of a short frame

\* Bits of the length field (the code's 32, narrowed).
LenBits == 4

\* Length fields tried: 0 .. MaxFrameLen, below 2 ^ LenBits.
MaxFrameLen == 12

\* How the crate was built: with overflow checks (debug) or without.
Builds == {"debug", "release"}

\* a - b on the unsigned length: below 0 the checked build panics and the
\* unchecked build wraps around.
sub_u32(a, b, build) ==
    IF a >= b THEN [err |-> "Ok", v |-> a - b, wrapped |-> FALSE]
    ELSE IF build = "debug" THEN [err |-> "panic", v |-> 0, wrapped |-> FALSE]
    ELSE [err |-> "Ok", v |-> a - b + 2 ^ LenBits, wrapped |-> TRUE]

\* a + b on the unsigned length, likewise.
add_u32(a, b, build) ==
    IF a + b < 2 ^ LenBits THEN [err |-> "Ok", v |-> a + b, wrapped |-> FALSE]
    ELSE IF build = "debug" THEN [err |-> "panic", v |-> 0, wrapped |-> FALSE]
    ELSE [err |-> "Ok", v |-> (a + b) % 2 ^ LenBits, wrapped |-> TRUE]

\* The lengths read_in_one_packet computes from the length field L of a frame
\* whose 9 bytes it has read, for a request-id that is known: len = L - 5;
\* a data frame reads 4 bytes and then len - 4, an extended reply reads len,
\* any other frame is read as a packet of len + 5. `len` is the length it
\* goes on to read, `wrapped` tells that a subtraction wrapped around.
read_in_one_packet_len(L, packet_type, build) ==
    LET d == sub_u32(L, TypeAndIdLen, build)
        e == sub_u32(d.v, DataLenPrefix, build)
        f == add_u32(d.v, TypeAndIdLen, build)
    IN  IF d.err # "Ok" THEN [err |-> d.err, len |-> 0, wrapped |-> FALSE]
        ELSE CASE packet_type = "data" ->
                      [err |-> e.err, len |-> e.v, wrapped |-> d.wrapped \/ e.wrapped]
               [] packet_type = "extended" ->
                      [err |-> "Ok", len |-> d.v, wrapped |-> d.wrapped]
               [] OTHER ->
                      [err |-> f.err, len |-> f.v, wrapped |-> d.wrapped]

\* The first 9 bytes of a frame with length field L are at the head of the
\* stream and enough bytes follow them.
LenInit ==
    /\ engine_new
    /\ auxiliary = [max_pending_requests |-> 1]
    /\ \E L \in 0 .. MaxFrameLen, t \in {"data", "extended", "other"},
          build \in Builds :
           call = [fn |-> "read_in_one_packet", pc |-> "called", L |-> L,
                   packet_type |-> t, build |-> build,
                   out |-> [err |-> "none", len |-> 0, wrapped |-> FALSE]]

read_in_one_packet_lengths ==
    /\ call.fn = "read_in_one_packet"
    /\ call.pc = "called"
    /\ call' = [call EXCEPT
                   !.pc = "returned",
                   !.out = read_in_one_packet_len(call.L, call.packet_type,
                                                  call.build)]
    /\ CallUnchanged

LenSpec == LenInit /\ [][read_in_one_packet_lengths]_vars

\* C40: for a frame whose length field is below 5, or a data frame whose
\* length field is below 9, read_in_one_packet returns an error: no
\* subtraction on the length underflows and no wrapped-around length is read.
C40_ShortFrameIsAnError ==
    (/\ call.fn = "read_in_one_packet"
     /\ call.pc = "returned"
     /\ \/ call.L < TypeAndIdLen
        \/ call.packet_type = "data" /\ call.L < TypeAndIdLen + DataLenPrefix) =>
        /\ call.out.err = "Error"
        /\ ~call.out.wrapped

====
